---- MODULE Spec2Model ----
(***************************************************************************)
(* Calendar synchronisation core of miipa.                                 *)
(*                                                                         *)
(* The model follows lib/application/calendar/sync-calendars               *)
(* (syncAllCalendars, syncCalendar, syncSingleCalendar and the fetch       *)
(* helpers) over the D1 repositories (event cache, sync state, calendar    *)
(* records, user settings, encrypted credentials).  Every await of the     *)
(* use case is a step of its own, so the per-calendar tasks that           *)
(* Promise.all runs concurrently interleave freely.                        *)
(***************************************************************************)
EXTENDS Integers, Sequences, FiniteSets, TLC

(***************************************************************************)
(* Bounds of the model.                                                    *)
(***************************************************************************)
MaxCals == 2
MaxEvents == 2
MaxRuns == 2

CalIds == 1..MaxCals
EventIds == 1..MaxEvents

(***************************************************************************)
(* Program constants.                                                      *)
(***************************************************************************)
SYNC_RANGE_DAYS == 30

USER == "u1"
ACCOUNT == "a1@example.com"
CALENDARS_KEY == "calendars"

(* createGoogleOAuthKey: `<namespace>:<discriminator>` *)
createGoogleOAuthKey(accountEmail) == <<"google-oauth", accountEmail>>

(***************************************************************************)
(* CalendarConfig: one registered calendar.  A missing optional field is   *)
(* the empty string (falsy, like undefined).                               *)
(***************************************************************************)
NameOf(c) == 100 + c

ConfigShapes ==
    { [type |-> "google", googleAccountEmail |-> ACCOUNT, googleCalendarId |-> "primary", icalUrl |-> ""],
      [type |-> "google", googleAccountEmail |-> "",      googleCalendarId |-> "primary", icalUrl |-> ""],
      [type |-> "google", googleAccountEmail |-> ACCOUNT, googleCalendarId |-> "",        icalUrl |-> ""],
      [type |-> "ical",   googleAccountEmail |-> "",      googleCalendarId |-> "",        icalUrl |-> "https://feed"],
      [type |-> "ical",   googleAccountEmail |-> "",      googleCalendarId |-> "",        icalUrl |-> ""],
      [type |-> "caldav", googleAccountEmail |-> "",      googleCalendarId |-> "",        icalUrl |-> ""] }

CalendarConfig(c, shape, enabled) ==
    [id |-> c, name |-> NameOf(c), type |-> shape.type, enabled |-> enabled,
     googleAccountEmail |-> shape.googleAccountEmail,
     googleCalendarId |-> shape.googleCalendarId,
     icalUrl |-> shape.icalUrl]

(* All calendar lists with distinct ids, in ascending id order. *)
RECURSIVE ListsOver(_)
ListsOver(n) ==
    IF n = 0 THEN { <<>> }
    ELSE LET shorter == ListsOver(n - 1) IN
         shorter \cup
         { Append(l, CalendarConfig(n, s, e)) :
             l \in shorter, s \in ConfigShapes, e \in BOOLEAN }

CalendarLists == ListsOver(MaxCals)

(***************************************************************************)
(* Stored strings and JSON.  A stored string is either empty, text that is *)
(* not JSON, or the serialisation of a value.  JSON.parse throws a         *)
(* SyntaxError on the second and yields the value on the third.            *)
(***************************************************************************)
Null == [kind |-> "null"]
EmptyString == [kind |-> "empty"]
NotJson == [kind |-> "text"]
JsonStringify(v) == [kind |-> "json", data |-> v]

Truthy(s) == s.kind # "null" /\ s.kind # "empty"

JsonParse(s) ==
    IF s.kind = "json" THEN [threw |-> FALSE, value |-> s.data]
    ELSE [threw |-> TRUE]

(***************************************************************************)
(* Time is counted in days.  getSyncTimeRange: 30 days back, 30 days on.   *)
(***************************************************************************)
getSyncTimeRange(today) ==
    [start |-> today - SYNC_RANGE_DAYS, end |-> today + SYNC_RANGE_DAYS]

(* The day an upstream event takes place on: event 1 lies within every     *)
(* sync window, the later ones enter the window as the days pass.          *)
EventDay(e) == IF e = 1 THEN 1 ELSE SYNC_RANGE_DAYS + e

InRange(day, range) == range.start <= day /\ day <= range.end

(***************************************************************************)
(* State.  The five tables are the D1 tables the repositories read and     *)
(* write; the rest is the position of the sync run in progress.            *)
(***************************************************************************)
VARIABLES
    user_settings,        \* rows [user_id, key, value]
    credentials,          \* rows [user_id, key, value]
    calendars,            \* rows [id, user_id, name, type, config, is_active]
    calendar_events,      \* rows [id, calendar_id, user_id, start_time, end_time]
    calendar_sync_state,  \* rows [calendar_id, user_id, last_sync_time]
    now,                  \* the current day
    runsLeft,             \* how many more calls the callers will make
    mode,                 \* "none", "all" (syncAllCalendars) or "single" (syncCalendar)
    target,               \* calendarId argument of syncCalendar
    phase,                \* "idle", "loading", "syncing", "returned"
    configRead,           \* how getSetting("calendars") answered this run: "none", "ok", "err"
    loaded,               \* the configs the run works on (enabledCalendars / calendarConfig)
    syncTime,             \* syncTime captured by syncAllCalendars
    pc,                   \* per calendar: the await its task is suspended on
    events,               \* per calendar: the events its task fetched
    taskError,            \* per calendar: the SyncError its task ended with
    result,               \* what the call returned to its caller
    opLog,                \* per calendar: repository/provider calls of this run, in order
    pre,                  \* the cache tables as they were when the run was called
    lastLog,              \* per mode and calendar: opLog of the latest finished run
    call,                 \* the latest repository or route call made outside a sync run
    provider              \* the Google adapter instance a caller holds

tables == <<user_settings, credentials, calendars, calendar_events, calendar_sync_state>>
cache == <<calendars, calendar_events, calendar_sync_state>>
vars == <<user_settings, credentials, calendars, calendar_events, calendar_sync_state,
          now, runsLeft, mode, target, phase, configRead, loaded, syncTime, pc, events,
          taskError, result, opLog, pre, lastLog, call, provider>>

(* no call outside a sync run, no adapter instance *)
NoCall == [op |-> "none"]

NoProvider == [pc |-> "none"]

(***************************************************************************)
(* SyncError factories.  calendarId 0 and cause "none" stand for undefined.*)
(***************************************************************************)
NoError == [code |-> "none", message |-> "none", calendarId |-> 0, cause |-> "none"]

syncConfigError(message) ==
    [code |-> "SYNC_CONFIG_ERROR", message |-> message, calendarId |-> 0, cause |-> "none"]

syncDbError(message, calendarId, cause) ==
    [code |-> "SYNC_DB_ERROR", message |-> message, calendarId |-> calendarId, cause |-> cause]

syncProviderError(message, calendarId, cause) ==
    [code |-> "SYNC_PROVIDER_ERROR", message |-> message, calendarId |-> calendarId, cause |-> cause]

syncCalendarNotFound(calendarId) ==
    [code |-> "SYNC_CALENDAR_NOT_FOUND", message |-> "calendar not found",
     calendarId |-> calendarId, cause |-> "none"]

syncTokenNotFound(calendarId) ==
    [code |-> "SYNC_TOKEN_NOT_FOUND", message |-> "credentials not found",
     calendarId |-> calendarId, cause |-> "none"]

(***************************************************************************)
(* D1ConfigRepository / D1SecretRepository reads.                          *)
(***************************************************************************)
getSetting(userId, key) ==
    LET rows == { r \in user_settings : r.user_id = userId /\ r.key = key } IN
    IF rows = {} THEN Null ELSE (CHOOSE r \in rows : TRUE).value

getSecret(userId, key) ==
    LET rows == { r \in credentials : r.user_id = userId /\ r.key = key } IN
    IF rows = {} THEN Null ELSE (CHOOSE r \in rows : TRUE).value

(***************************************************************************)
(* D1EventRepository writes, as functions of the table.                    *)
(***************************************************************************)
EventRow(userId, event) ==
    [id |-> event.id, calendar_id |-> event.calendarId, user_id |-> userId,
     start_time |-> event.startTime, end_time |-> event.endTime]

saveMany_replacesAll(table, userId, evs) ==
    IF evs = {} THEN table
    ELSE { r \in table : r.user_id # userId } \cup { EventRow(userId, e) : e \in evs }

(* INSERT OR REPLACE keyed by (id, calendar_id, user_id) *)
saveMany(table, userId, evs) ==
    IF evs = {} THEN table
    ELSE { r \in table :
             ~ \E e \in evs : r.id = e.id /\ r.calendar_id = e.calendarId /\ r.user_id = userId }
         \cup { EventRow(userId, e) : e \in evs }

updateLastSyncTime_anyUser(table, userId, calendarId, time) ==
    { r \in table : r.calendar_id # calendarId }
    \cup { [calendar_id |-> calendarId, user_id |-> userId, last_sync_time |-> time] }

(* INSERT OR REPLACE keyed by (calendar_id, user_id) *)
updateLastSyncTime(table, userId, calendarId, time) ==
    { r \in table : ~ (r.calendar_id = calendarId /\ r.user_id = userId) }
    \cup { [calendar_id |-> calendarId, user_id |-> userId, last_sync_time |-> time] }

ensureCalendarRecord_replace(table, userId, calendarId, name, type, config, isActive) ==
    { r \in table : r.id # calendarId }
    \cup { [id |-> calendarId, user_id |-> userId, name |-> name,
             type |-> type, config |-> config, is_active |-> isActive] }

(* INSERT OR IGNORE; the primary key of calendars is id *)
ensureCalendarRecord(table, userId, calendarId, name, type, config, isActive) ==
    IF \E r \in table : r.id = calendarId THEN table
    ELSE table \cup { [id |-> calendarId, user_id |-> userId, name |-> name,
                       type |-> type, config |-> config, is_active |-> isActive] }

getLastSyncTime(table, userId, calendarId) ==
    LET rows == { r \in table : r.calendar_id = calendarId /\ r.user_id = userId } IN
    IF rows = {} THEN 0 ELSE (CHOOSE r \in rows : TRUE).last_sync_time

EventsOfCalendar(table, userId, calendarId) ==
    { r \in table : r.user_id = userId /\ r.calendar_id = calendarId }

(***************************************************************************)
(* Initial state: any registered calendar list (or a missing, empty or     *)
(* corrupt setting), any stored token blob, empty cache, no run.           *)
(***************************************************************************)
SettingValues ==
    { Null, EmptyString, NotJson } \cup { JsonStringify(l) : l \in CalendarLists }

TokenBlobs == { Null, NotJson, JsonStringify("tokens") }

InitWith(settingValues, runs) ==
    /\ runsLeft = runs
    /\ \E v \in settingValues :
          user_settings = IF v = Null THEN {}
                          ELSE { [user_id |-> USER, key |-> CALENDARS_KEY, value |-> v] }
    /\ \E t \in TokenBlobs :
          credentials = IF t = Null THEN {}
                        ELSE { [user_id |-> USER, key |-> createGoogleOAuthKey(ACCOUNT), value |-> t] }
    /\ calendars = {}
    /\ calendar_events = {}
    /\ calendar_sync_state = {}
    /\ now = 0
    /\ mode = "none"
    /\ target = 0
    /\ phase = "idle"
    /\ configRead = "none"
    /\ loaded = <<>>
    /\ syncTime = 0
    /\ pc = [c \in CalIds |-> "none"]
    /\ events = [c \in CalIds |-> {}]
    /\ taskError = [c \in CalIds |-> NoError]
    /\ result = [tag |-> "none"]
    /\ opLog = [c \in CalIds |-> <<>>]
    /\ pre = [calendars |-> {}, calendar_events |-> {}, calendar_sync_state |-> {}]
    /\ lastLog = [m \in {"all", "single"} |-> [c \in CalIds |-> <<>>]]
    /\ call = NoCall
    /\ provider = NoProvider

(* One call, over every registered list. *)
Init == InitWith(SettingValues, 1)

(* Repeated calls over the lists of one enabled, well-formed calendar. *)
RepeatLists ==
    { l \in ListsOver(1) :
        Len(l) = 1 /\ l[1].enabled
        /\ \/ l[1].type = "google" /\ l[1].googleAccountEmail # "" /\ l[1].googleCalendarId # ""
           \/ l[1].type = "ical" /\ l[1].icalUrl # "" }

InitRepeat == InitWith({ JsonStringify(l) : l \in RepeatLists }, MaxRuns)

(***************************************************************************)
(* Helpers on the run state.                                               *)
(***************************************************************************)
ConfigOf(c) == LET i == CHOOSE i \in 1..Len(loaded) : loaded[i].id = c IN loaded[i]

IdsOf(list) == { list[i].id : i \in 1..Len(list) }

Settled(c) == pc[c] \in {"none", "done", "failed", "rejected"}

(* opLog: a call is appended when it is issued, its result filled in when  *)
(* it answers.                                                             *)
Issued(log, op) == Append(log, [op |-> op, res |-> "pending"])

Answered(log, res) == [log EXCEPT ![Len(log)].res = res]

(* the task of calendar c ends with a SyncError *)
Fail(c, error) ==
    /\ pc' = [pc EXCEPT ![c] = "failed"]
    /\ taskError' = [taskError EXCEPT ![c] = error]

(***************************************************************************)
(* A caller (route handler) invokes one of the two use cases.  One run at  *)
(* a time; a day passes between two runs.                                  *)
(***************************************************************************)
Call(m, calendarId) ==
    /\ phase \in {"idle", "returned"}
    /\ \A c \in CalIds : Settled(c)
    /\ runsLeft > 0
    /\ runsLeft' = runsLeft - 1
    /\ now' = now + 1
    /\ mode' = m
    /\ target' = calendarId
    /\ phase' = "loading"
    /\ configRead' = "none"
    /\ loaded' = <<>>
    /\ syncTime' = 0
    /\ pc' = [c \in CalIds |-> "none"]
    /\ events' = [c \in CalIds |-> {}]
    /\ taskError' = [c \in CalIds |-> NoError]
    /\ result' = [tag |-> "none"]
    /\ opLog' = [c \in CalIds |-> <<>>]
    /\ pre' = [calendars |-> calendars, calendar_events |-> calendar_events,
               calendar_sync_state |-> calendar_sync_state]
    /\ lastLog' = IF mode = "none" THEN lastLog ELSE [lastLog EXCEPT ![mode] = opLog]
    /\ UNCHANGED <<tables, call, provider>>

CallSyncAllCalendars == Call("all", 0)

CallSyncCalendar == \E calendarId \in CalIds : Call("single", calendarId)

(***************************************************************************)
(* syncAllCalendars up to the fan-out: getSetting answers, the list is     *)
(* parsed and filtered, and one syncSingleCalendar is started per enabled  *)
(* calendar.                                                               *)
(***************************************************************************)
EmptyReport(time) ==
    [tag |-> "ok", successCount |-> 0, errorCalendars |-> <<>>, totalCount |-> 0,
     syncedAt |-> time]

syncAllCalendars_load_lenient(settingRead) ==
    LET value == getSetting(USER, CALENDARS_KEY) IN
    IF ~ settingRead \/ ~ Truthy(value) THEN [tag |-> "ok", calendars |-> <<>>]
    ELSE IF JsonParse(value).threw THEN [tag |-> "thrown"]
    ELSE [tag |-> "ok", calendars |-> JsonParse(value).value]

(* getSetting("calendars") and the parse of its value, in syncAllCalendars *)
syncAllCalendars_load(settingRead) ==
    IF ~ settingRead THEN [tag |-> "err"]
    ELSE LET value == getSetting(USER, CALENDARS_KEY) IN
         IF ~ Truthy(value) THEN [tag |-> "ok", calendars |-> <<>>]
         ELSE IF JsonParse(value).threw THEN [tag |-> "thrown"]
         ELSE [tag |-> "ok", calendars |-> JsonParse(value).value]

EnabledCalendars_unfiltered(list) == list

(* calendars.filter((c) => c.enabled) *)
EnabledCalendars(list) == SelectSeq(list, LAMBDA cfg : cfg.enabled)

syncAllCalendars(settingRead) ==
    /\ mode = "all" /\ phase = "loading"
    /\ configRead' = IF settingRead THEN "ok" ELSE "err"
    /\ LET read == syncAllCalendars_load(settingRead) IN
       IF read.tag = "err"
       THEN /\ result' = [tag |-> "err", error |-> syncConfigError("settings unreadable")]
            /\ phase' = "returned"
            /\ UNCHANGED <<loaded, syncTime, pc>>
       ELSE IF read.tag = "thrown"
       THEN /\ result' = [tag |-> "thrown"]
            /\ phase' = "returned"
            /\ UNCHANGED <<loaded, syncTime, pc>>
       ELSE LET enabledCalendars == EnabledCalendars(read.calendars) IN
            IF Len(enabledCalendars) = 0
            THEN /\ result' = EmptyReport(now)
                 /\ phase' = "returned"
                 /\ UNCHANGED <<loaded, syncTime, pc>>
            ELSE /\ loaded' = enabledCalendars
                 /\ syncTime' = now
                 /\ pc' = [c \in CalIds |->
                             IF c \in IdsOf(enabledCalendars) THEN "fetch" ELSE "none"]
                 /\ phase' = "syncing"
                 /\ UNCHANGED result
    /\ UNCHANGED <<tables, now, runsLeft, mode, target, events, taskError, opLog, pre, lastLog, call, provider>>

SyncAllLoad == \E settingRead \in BOOLEAN : syncAllCalendars(settingRead)

(***************************************************************************)
(* syncCalendar up to the fetch: getSetting answers, the list is parsed    *)
(* and the calendar is looked up by id.                                    *)
(***************************************************************************)
syncCalendar_load(settingRead) ==
    IF ~ settingRead THEN [tag |-> "err"]
    ELSE LET value == getSetting(USER, CALENDARS_KEY) IN
         IF ~ Truthy(value) THEN [tag |-> "ok", calendars |-> <<>>]
         ELSE IF JsonParse(value).threw THEN [tag |-> "thrown"]
         ELSE [tag |-> "ok", calendars |-> JsonParse(value).value]

syncCalendar(settingRead) ==
    /\ mode = "single" /\ phase = "loading"
    /\ configRead' = IF settingRead THEN "ok" ELSE "err"
    /\ LET read == syncCalendar_load(settingRead) IN
       IF read.tag = "err"
       THEN /\ result' = [tag |-> "err", error |-> syncConfigError("settings unreadable")]
            /\ phase' = "returned"
            /\ UNCHANGED <<loaded, pc>>
       ELSE IF read.tag = "thrown"
       THEN /\ result' = [tag |-> "thrown"]
            /\ phase' = "returned"
            /\ UNCHANGED <<loaded, pc>>
       ELSE LET found == SelectSeq(read.calendars, LAMBDA cfg : cfg.id = target) IN
            IF Len(found) = 0
            THEN /\ result' = [tag |-> "err", error |-> syncCalendarNotFound(target)]
                 /\ phase' = "returned"
                 /\ UNCHANGED <<loaded, pc>>
            ELSE /\ loaded' = <<found[1]>>
                 /\ pc' = [pc EXCEPT ![target] = "fetch"]
                 /\ phase' = "syncing"
                 /\ UNCHANGED result
    /\ UNCHANGED <<tables, now, runsLeft, mode, target, syncTime, events, taskError, opLog,
                   pre, lastLog, call, provider>>

SyncCalendarLoad == \E settingRead \in BOOLEAN : syncCalendar(settingRead)

(***************************************************************************)
(* fetchEventsFromProvider and its two helpers, up to their first await.   *)
(***************************************************************************)
fetchGoogleCalendarEvents(c, cfg) ==
    IF cfg.googleAccountEmail = "" \/ cfg.googleCalendarId = ""
    THEN /\ Fail(c, syncProviderError("google config incomplete", c, "none"))
         /\ UNCHANGED opLog
    ELSE /\ pc' = [pc EXCEPT ![c] = "getSecret"]
         /\ opLog' = [opLog EXCEPT ![c] = Issued(@, "getSecret")]
         /\ UNCHANGED taskError

fetchICalEvents_unchecked(c, cfg) ==
    /\ pc' = [pc EXCEPT ![c] = "getEvents"]
    /\ opLog' = [opLog EXCEPT ![c] = Issued(@, "getEvents")]
    /\ UNCHANGED taskError

fetchICalEvents(c, cfg) ==
    IF cfg.icalUrl = ""
    THEN /\ Fail(c, syncProviderError("ical url not set", c, "none"))
         /\ UNCHANGED opLog
    ELSE /\ pc' = [pc EXCEPT ![c] = "getEvents"]
         /\ opLog' = [opLog EXCEPT ![c] = Issued(@, "getEvents")]
         /\ UNCHANGED taskError

fetchEventsFromProvider(c) ==
    /\ pc[c] = "fetch"
    /\ LET cfg == ConfigOf(c) IN
         IF cfg.type = "google" THEN fetchGoogleCalendarEvents(c, cfg)
         ELSE IF cfg.type = "ical" THEN fetchICalEvents(c, cfg)
         ELSE /\ Fail(c, syncProviderError("unsupported calendar type", c, "none"))
              /\ UNCHANGED opLog
    /\ UNCHANGED <<tables, now, runsLeft, mode, target, phase, configRead, loaded, syncTime, events,
                   result, pre, lastLog, call, provider>>

(***************************************************************************)
(* fetchGoogleCalendarEvents once the Secret Store has answered: a read    *)
(* error and a missing token end the task with a SyncError, a token blob   *)
(* that is not JSON makes JSON.parse throw out of the task, and a parsed   *)
(* token starts provider.getEvents.                                        *)
(***************************************************************************)
fetchGoogleCalendarEvents_tokens(c, secretRead) ==
    /\ pc[c] = "getSecret"
    /\ LET cfg == ConfigOf(c)
           tokensJson == getSecret(USER, createGoogleOAuthKey(cfg.googleAccountEmail))
       IN  IF ~ secretRead
           THEN /\ Fail(c, [code |-> "SYNC_TOKEN_NOT_FOUND", message |-> "credentials unreadable",
                            calendarId |-> c, cause |-> "SECRET_READ_FAILED"])
                /\ opLog' = [opLog EXCEPT ![c] = Answered(@, "err")]
           ELSE IF ~ Truthy(tokensJson)
           THEN /\ Fail(c, syncTokenNotFound(c))
                /\ opLog' = [opLog EXCEPT ![c] = Answered(@, "ok")]
           ELSE IF JsonParse(tokensJson).threw
           THEN /\ pc' = [pc EXCEPT ![c] = "rejected"]
                /\ opLog' = [opLog EXCEPT ![c] = Answered(@, "ok")]
                /\ UNCHANGED taskError
           ELSE /\ pc' = [pc EXCEPT ![c] = "getEvents"]
                /\ opLog' = [opLog EXCEPT ![c] = Issued(Answered(@, "ok"), "getEvents")]
                /\ UNCHANGED taskError
    /\ UNCHANGED <<tables, now, runsLeft, mode, target, phase, configRead, loaded, syncTime, events,
                   result, pre, lastLog, call, provider>>

GetSecretAnswers(c) == \E secretRead \in BOOLEAN : fetchGoogleCalendarEvents_tokens(c, secretRead)

(***************************************************************************)
(* Provider adapters.  getEvents answers with the events the upstream      *)
(* holds within the requested range, or with a CalendarError.  The events  *)
(* of the Google adapter carry the provider's calendar id.                 *)
(***************************************************************************)
UpstreamEvents(calendarId, range) ==
    { { [id |-> e, calendarId |-> calendarId,
         startTime |-> EventDay(e), endTime |-> EventDay(e)] : e \in es } :
      es \in SUBSET { e \in EventIds : InRange(EventDay(e), range) } }

GoogleCalendarProvider_getEvents(calendarId, range) ==
    { [ok |-> FALSE, error |-> e] : e \in {"AUTH_EXPIRED", "API_ERROR", "NETWORK_ERROR"} }
    \cup { [ok |-> TRUE, value |-> evs] : evs \in UpstreamEvents(calendarId, range) }

ICalProvider_getEvents(calendarId, range) ==
    { [ok |-> FALSE, error |-> e] : e \in {"API_ERROR", "NETWORK_ERROR", "PARSE_ERROR"} }
    \cup { [ok |-> TRUE, value |-> evs] : evs \in UpstreamEvents(calendarId, range) }

SetCalendarId_shifted(evs, calendarId) ==
    { [e EXCEPT !.calendarId = calendarId + 1] : e \in evs }

(* fetchGoogleCalendarEvents sets the config's id on every event *)
SetCalendarId(evs, calendarId) ==
    { [e EXCEPT !.calendarId = calendarId] : e \in evs }

(* The await the caller of fetchEventsFromProvider reaches next. *)
AwaitAfterFetch(m) == IF m = "all" THEN "ensureCalendarRecord" ELSE "saveMany"

fetchEvents_answer(c, answer) ==
    /\ pc[c] = "getEvents"
    /\ IF ~ answer.ok
       THEN /\ Fail(c, syncProviderError("provider fetch failed", c, answer.error))
            /\ opLog' = [opLog EXCEPT ![c] = Answered(@, answer.error)]
            /\ UNCHANGED events
       ELSE /\ events' = [events EXCEPT ![c] = SetCalendarId(answer.value, c)]
            /\ pc' = [pc EXCEPT ![c] = AwaitAfterFetch(mode)]
            /\ opLog' = [opLog EXCEPT ![c] = Issued(Answered(@, "ok"), AwaitAfterFetch(mode))]
            /\ UNCHANGED taskError
    /\ UNCHANGED <<tables, now, runsLeft, mode, target, phase, configRead, loaded, syncTime,
                   result, pre, lastLog, call, provider>>

GetEventsAnswers(c) ==
    /\ pc[c] = "getEvents"
    /\ LET cfg == ConfigOf(c)
           range == getSyncTimeRange(now)
       IN  \E answer \in IF cfg.type = "google"
                         THEN GoogleCalendarProvider_getEvents(cfg.googleCalendarId, range)
                         ELSE ICalProvider_getEvents(c, range) :
              fetchEvents_answer(c, answer)

(* The upstream never answers: fetch() carries no timeout or abort signal. *)
GetEventsNeverAnswers(c) ==
    /\ pc[c] = "getEvents"
    /\ pc' = [pc EXCEPT ![c] = "hung"]
    /\ UNCHANGED <<tables, now, runsLeft, mode, target, phase, configRead, loaded, syncTime, events,
                   taskError, result, opLog, pre, lastLog, call, provider>>

(***************************************************************************)
(* syncSingleCalendar after the fetch: ensure the calendar record (a       *)
(* failure is only logged), save the events (a failure ends the task),     *)
(* update the sync time (a failure is only logged).                        *)
(***************************************************************************)
syncSingleCalendar_ensured(c, written) ==
    /\ mode = "all" /\ pc[c] = "ensureCalendarRecord"
    /\ LET cfg == ConfigOf(c) IN
         calendars' = IF written
                      THEN ensureCalendarRecord(calendars, USER, cfg.id, cfg.name, cfg.type,
                                                JsonStringify(cfg), cfg.enabled)
                      ELSE calendars
    /\ pc' = [pc EXCEPT ![c] = "saveMany"]
    /\ opLog' = [opLog EXCEPT ![c] =
                   Issued(Answered(@, IF written THEN "ok" ELSE "err"), "saveMany")]
    /\ UNCHANGED <<user_settings, credentials, calendar_events, calendar_sync_state,
                   now, runsLeft, mode, target, phase, configRead, loaded, syncTime, events, taskError,
                   result, pre, lastLog, call, provider>>

syncSingleCalendar_saved_goesOn(c, written) ==
    /\ mode = "all" /\ pc[c] = "saveMany"
    /\ calendar_events' = IF written THEN saveMany(calendar_events, USER, events[c])
                          ELSE calendar_events
    /\ pc' = [pc EXCEPT ![c] = "updateLastSyncTime"]
    /\ opLog' = [opLog EXCEPT ![c] =
                   Issued(Answered(@, IF written THEN "ok" ELSE "err"), "updateLastSyncTime")]
    /\ UNCHANGED <<user_settings, credentials, calendars, calendar_sync_state,
                   now, runsLeft, mode, target, phase, configRead, loaded, syncTime, events,
                   taskError, result, pre, lastLog, call, provider>>

syncSingleCalendar_saved(c, written) ==
    /\ mode = "all" /\ pc[c] = "saveMany"
    /\ IF written
       THEN /\ calendar_events' = saveMany(calendar_events, USER, events[c])
            /\ pc' = [pc EXCEPT ![c] = "updateLastSyncTime"]
            /\ opLog' = [opLog EXCEPT ![c] = Issued(Answered(@, "ok"), "updateLastSyncTime")]
            /\ UNCHANGED taskError
       ELSE /\ Fail(c, syncDbError("saving events failed", c, "DB_WRITE_FAILED"))
            /\ opLog' = [opLog EXCEPT ![c] = Answered(@, "err")]
            /\ UNCHANGED calendar_events
    /\ UNCHANGED <<user_settings, credentials, calendars, calendar_sync_state,
                   now, runsLeft, mode, target, phase, configRead, loaded, syncTime, events,
                   result, pre, lastLog, call, provider>>

syncSingleCalendar_updated_strict(c, written) ==
    /\ mode = "all" /\ pc[c] = "updateLastSyncTime"
    /\ IF written
       THEN /\ calendar_sync_state' = updateLastSyncTime(calendar_sync_state, USER, c, syncTime)
            /\ pc' = [pc EXCEPT ![c] = "done"]
            /\ opLog' = [opLog EXCEPT ![c] = Answered(@, "ok")]
            /\ UNCHANGED taskError
       ELSE /\ Fail(c, syncDbError("updating sync time failed", c, "DB_WRITE_FAILED"))
            /\ opLog' = [opLog EXCEPT ![c] = Answered(@, "err")]
            /\ UNCHANGED calendar_sync_state
    /\ UNCHANGED <<user_settings, credentials, calendars, calendar_events,
                   now, runsLeft, mode, target, phase, configRead, loaded, syncTime, events,
                   result, pre, lastLog, call, provider>>

syncSingleCalendar_updated(c, written) ==
    /\ mode = "all" /\ pc[c] = "updateLastSyncTime"
    /\ calendar_sync_state' = IF written
                              THEN updateLastSyncTime(calendar_sync_state, USER, c, syncTime)
                              ELSE calendar_sync_state
    /\ pc' = [pc EXCEPT ![c] = "done"]
    /\ opLog' = [opLog EXCEPT ![c] = Answered(@, IF written THEN "ok" ELSE "err")]
    /\ UNCHANGED <<user_settings, credentials, calendars, calendar_events,
                   now, runsLeft, mode, target, phase, configRead, loaded, syncTime, events, taskError,
                   result, pre, lastLog, call, provider>>

(* saveMany returns Ok for an empty list before it touches the database *)
WriteOutcomes(evs) == IF evs = {} THEN {TRUE} ELSE BOOLEAN

SyncSingleEnsure(c) == \E written \in BOOLEAN : syncSingleCalendar_ensured(c, written)

SyncSingleSave(c) == \E written \in WriteOutcomes(events[c]) : syncSingleCalendar_saved(c, written)

SyncSingleUpdate(c) == \E written \in BOOLEAN : syncSingleCalendar_updated(c, written)

(***************************************************************************)
(* syncCalendar after the fetch: save the events, then update the sync     *)
(* time with the time read after the save.                                 *)
(***************************************************************************)
syncCalendar_saved(c, written) ==
    /\ mode = "single" /\ pc[c] = "saveMany"
    /\ IF written
       THEN /\ calendar_events' = saveMany(calendar_events, USER, events[c])
            /\ pc' = [pc EXCEPT ![c] = "updateLastSyncTime"]
            /\ opLog' = [opLog EXCEPT ![c] = Issued(Answered(@, "ok"), "updateLastSyncTime")]
            /\ UNCHANGED taskError
       ELSE /\ Fail(c, syncDbError("saving events failed", c, "DB_WRITE_FAILED"))
            /\ opLog' = [opLog EXCEPT ![c] = Answered(@, "err")]
            /\ UNCHANGED calendar_events
    /\ UNCHANGED <<user_settings, credentials, calendars, calendar_sync_state,
                   now, runsLeft, mode, target, phase, configRead, loaded, syncTime, events,
                   result, pre, lastLog, call, provider>>

syncCalendar_updated(c, written) ==
    /\ mode = "single" /\ pc[c] = "updateLastSyncTime"
    /\ calendar_sync_state' = IF written
                              THEN updateLastSyncTime(calendar_sync_state, USER, c, now)
                              ELSE calendar_sync_state
    /\ syncTime' = now
    /\ pc' = [pc EXCEPT ![c] = "done"]
    /\ opLog' = [opLog EXCEPT ![c] = Answered(@, IF written THEN "ok" ELSE "err")]
    /\ UNCHANGED <<user_settings, credentials, calendars, calendar_events,
                   now, runsLeft, mode, target, phase, configRead, loaded, events, taskError,
                   result, pre, lastLog, call, provider>>

SyncCalendarSave(c) == \E written \in WriteOutcomes(events[c]) : syncCalendar_saved(c, written)

SyncCalendarUpdate(c) == \E written \in BOOLEAN : syncCalendar_updated(c, written)

(***************************************************************************)
(* The calls return.  Promise.all fulfils when every task has returned its *)
(* InternalSyncResult and rejects as soon as one task has thrown; the      *)
(* other tasks keep running after a rejection.                             *)
(***************************************************************************)
InternalSyncResult(cfg) ==
    [calendarId |-> cfg.id, name |-> cfg.name, success |-> pc[cfg.id] = "done",
     error |-> taskError[cfg.id]]

Aggregate(syncResults, total, time) ==
    LET failures == SelectSeq(syncResults, LAMBDA r : ~ r.success /\ r.error.code # "none") IN
    [tag |-> "ok",
     successCount |-> Len(SelectSeq(syncResults, LAMBDA r : r.success)),
     errorCalendars |-> [i \in 1..Len(failures) |->
                           [calendarId |-> failures[i].calendarId, name |-> failures[i].name,
                            error |-> failures[i].error]],
     totalCount |-> total,
     syncedAt |-> time]

PromiseAllFulfilled ==
    /\ mode = "all" /\ phase = "syncing"
    /\ \A c \in IdsOf(loaded) : pc[c] \in {"done", "failed"}
    /\ result' = Aggregate([i \in 1..Len(loaded) |-> InternalSyncResult(loaded[i])],
                           Len(loaded), syncTime)
    /\ phase' = "returned"
    /\ UNCHANGED <<tables, now, runsLeft, mode, target, configRead, loaded, syncTime, pc, events, taskError,
                   opLog, pre, lastLog, call, provider>>

PromiseAllRejected ==
    /\ mode = "all" /\ phase = "syncing"
    /\ \E c \in IdsOf(loaded) : pc[c] = "rejected"
    /\ result' = [tag |-> "thrown"]
    /\ phase' = "returned"
    /\ UNCHANGED <<tables, now, runsLeft, mode, target, configRead, loaded, syncTime, pc, events, taskError,
                   opLog, pre, lastLog, call, provider>>

SyncCalendarReturn ==
    /\ mode = "single" /\ phase = "syncing"
    /\ pc[target] \in {"done", "failed", "rejected"}
    /\ result' = IF pc[target] = "rejected" THEN [tag |-> "thrown"]
                 ELSE IF pc[target] = "failed" THEN [tag |-> "err", error |-> taskError[target]]
                 ELSE [tag |-> "ok", calendarId |-> target,
                       eventCount |-> Cardinality(events[target]), syncedAt |-> syncTime]
    /\ phase' = "returned"
    /\ UNCHANGED <<tables, now, runsLeft, mode, target, configRead, loaded, syncTime, pc, events, taskError,
                   opLog, pre, lastLog, call, provider>>

(***************************************************************************)
(* Specification.                                                          *)
(***************************************************************************)
Next ==
    \/ CallSyncAllCalendars
    \/ CallSyncCalendar
    \/ SyncAllLoad
    \/ SyncCalendarLoad
    \/ \E c \in CalIds : fetchEventsFromProvider(c)
    \/ \E c \in CalIds : GetSecretAnswers(c)
    \/ \E c \in CalIds : GetEventsAnswers(c)
    \/ \E c \in CalIds : GetEventsNeverAnswers(c)
    \/ \E c \in CalIds : SyncSingleEnsure(c)
    \/ \E c \in CalIds : SyncSingleSave(c)
    \/ \E c \in CalIds : SyncSingleUpdate(c)
    \/ \E c \in CalIds : SyncCalendarSave(c)
    \/ \E c \in CalIds : SyncCalendarUpdate(c)
    \/ PromiseAllFulfilled
    \/ PromiseAllRejected
    \/ SyncCalendarReturn

Spec == Init /\ [][Next]_vars

SpecRepeat == InitRepeat /\ [][Next]_vars

(* Every call that can answer does answer, and every continuation runs;    *)
(* only an upstream request may stay unanswered for ever.                  *)
TaskStep(c) ==
    \/ fetchEventsFromProvider(c)
    \/ GetSecretAnswers(c)
    \/ GetEventsAnswers(c)
    \/ SyncSingleEnsure(c)
    \/ SyncSingleSave(c)
    \/ SyncSingleUpdate(c)
    \/ SyncCalendarSave(c)
    \/ SyncCalendarUpdate(c)

RunStep ==
    \/ SyncAllLoad
    \/ SyncCalendarLoad
    \/ PromiseAllFulfilled
    \/ PromiseAllRejected
    \/ SyncCalendarReturn

FairSpec ==
    /\ Init /\ [][Next]_vars
    /\ WF_vars(RunStep)
    /\ \A c \in CalIds : WF_vars(TaskStep(c))

(***************************************************************************)
(* Vocabulary of the properties.                                           *)
(***************************************************************************)
StoredValue == getSetting(USER, CALENDARS_KEY)

ListReadable == ~ Truthy(StoredValue) \/ ~ JsonParse(StoredValue).threw

StoredList == IF Truthy(StoredValue) /\ ~ JsonParse(StoredValue).threw
              THEN JsonParse(StoredValue).value ELSE <<>>

StoredEnabledIds == { StoredList[i].id : i \in { j \in 1..Len(StoredList) : StoredList[j].enabled } }

StoredDisabledIds == { StoredList[i].id : i \in { j \in 1..Len(StoredList) : ~ StoredList[j].enabled } }

OpsOf(log) == [i \in 1..Len(log) |-> log[i].op]

Called(c, op) == \E i \in 1..Len(opLog[c]) : opLog[c][i].op = op

Answer(c, op, res) == \E i \in 1..Len(opLog[c]) : opLog[c][i].op = op /\ opLog[c][i].res = res

FetchOk(c) == Answer(c, "getEvents", "ok")

SaveOk(c) == Answer(c, "saveMany", "ok")

CacheUnchanged ==
    /\ calendars = pre.calendars
    /\ calendar_events = pre.calendar_events
    /\ calendar_sync_state = pre.calendar_sync_state

ListedIds == { result.errorCalendars[i].calendarId : i \in 1..Len(result.errorCalendars) }

BatchReturned == mode = "all" /\ phase = "returned"

BatchReported == BatchReturned /\ result.tag = "ok"

(***************************************************************************)
(* C1: every syncAllCalendars run whose calendar list loaded with N        *)
(* enabled calendars, M of them failing, returns Ok with successCount =    *)
(* N - M, the M failing calendars listed once each with id and name,       *)
(* totalCount = N, and never throws.                                       *)
(***************************************************************************)
C1_ReportCounts ==
    (BatchReturned /\ configRead = "ok" /\ ListReadable) =>
        LET n == Cardinality(StoredEnabledIds)
            failing == { c \in StoredEnabledIds : pc[c] # "done" }
        IN  /\ result.tag = "ok"
            /\ result.totalCount = n
            /\ result.successCount = n - Cardinality(failing)
            /\ Len(result.errorCalendars) = Cardinality(failing)
            /\ ListedIds = failing
            /\ \A i \in 1..Len(result.errorCalendars) :
                  result.errorCalendars[i].name = NameOf(result.errorCalendars[i].calendarId)
            /\ result.successCount + Len(result.errorCalendars) = result.totalCount

(***************************************************************************)
(* C2: the sync operations return an explicit Result and never throw, also *)
(* when the stored calendar list or a stored token blob is not valid JSON. *)
(***************************************************************************)
C2_NeverThrows == phase = "returned" => result.tag \in {"ok", "err"}

(* C1 without its "never throws": the counts of every report that is returned *)
C1_CountsOfReports ==
    BatchReported =>
        LET n == Cardinality(StoredEnabledIds)
            failing == { c \in StoredEnabledIds : pc[c] # "done" }
        IN  /\ result.totalCount = n
            /\ result.successCount = n - Cardinality(failing)
            /\ ListedIds = failing
            /\ Len(result.errorCalendars) = Cardinality(failing)

(***************************************************************************)
(* C3: with zero enabled calendars syncAllCalendars returns the empty      *)
(* report without a provider call, a secret read or a cache write; and no  *)
(* run of it fetches or writes a calendar whose enabled flag is false.     *)
(***************************************************************************)
C3_DisabledUntouched ==
    (mode = "all" /\ configRead = "ok" /\ ListReadable) =>
        /\ \A c \in CalIds \ StoredEnabledIds :
              /\ pc[c] = "none"
              /\ opLog[c] = <<>>
              /\ EventsOfCalendar(calendar_events, USER, c) = EventsOfCalendar(pre.calendar_events, USER, c)
              /\ getLastSyncTime(calendar_sync_state, USER, c) = getLastSyncTime(pre.calendar_sync_state, USER, c)
              /\ ~ \E r \in calendars \ pre.calendars : r.id = c
        /\ StoredEnabledIds = {} =>
              /\ phase = "returned"
              /\ result.tag = "ok"
              /\ result.successCount = 0
              /\ result.totalCount = 0
              /\ result.errorCalendars = <<>>
              /\ CacheUnchanged

C3_Witness ==
    /\ BatchReported
    /\ StoredEnabledIds = {}
    /\ StoredDisabledIds # {}
    /\ result.totalCount = 0

(***************************************************************************)
(* C4: in a syncAllCalendars batch a calendar whose config is inconsistent *)
(* (ical without url, google without account email or provider calendar    *)
(* id, unsupported type) fails with a configuration error that the report  *)
(* lists, without a provider or Secret Store call for it, and the other    *)
(* enabled calendars are fetched, persisted and counted as their own       *)
(* fetch and save went.                                                    *)
(***************************************************************************)
Inconsistent(cfg) ==
    \/ cfg.type = "google" /\ (cfg.googleAccountEmail = "" \/ cfg.googleCalendarId = "")
    \/ cfg.type = "ical" /\ cfg.icalUrl = ""
    \/ cfg.type \notin {"google", "ical"}

ConfigurationError(error, c) ==
    /\ error.calendarId = c
    /\ error.cause = "none"
    /\ error.message \in {"google config incomplete", "ical url not set", "unsupported calendar type"}

Persisted(c) == { EventRow(USER, e) : e \in events[c] } \subseteq calendar_events

C5_UnreadableConfigAborts ==
    configRead = "err" =>
        /\ phase = "returned"
        /\ result.tag = "err"
        /\ result.error.code = "SYNC_CONFIG_ERROR"
        /\ \A c \in CalIds : pc[c] = "none" /\ opLog[c] = <<>>
        /\ CacheUnchanged

C5_Witness ==
    /\ configRead = "err"
    /\ mode = "all"
    /\ result.tag = "err"
    /\ StoredEnabledIds # {}
    /\ calendar_events # {}
    /\ calendar_sync_state # {}

(***************************************************************************)
(* C6: one unresponsive provider cannot stall the batch: every             *)
(* syncAllCalendars call eventually returns, also when the upstream        *)
(* request of one enabled calendar never answers, as long as every other   *)
(* provider and storage call completes.                                    *)
(***************************************************************************)
C6_BatchAlwaysReturns == (mode = "all" /\ phase = "loading") ~> (phase = "returned")

(* without an unanswered request the batch does return *)
C6_ReturnsWhenAllAnswer ==
    <>(\E c \in CalIds : pc[c] = "hung") \/ C6_BatchAlwaysReturns

(***************************************************************************)
(* C7: a per-calendar sync only moves Loading Config -> Fetching ->        *)
(* Persisting -> UpdatingSyncState -> Done, or to Failed: events are       *)
(* written only after the fetch succeeded, the last-sync time only after   *)
(* the fetch and the persist of the same run succeeded, and a calendar     *)
(* whose fetch or persist failed keeps its previous last-sync time.        *)
(***************************************************************************)
Rank(op) ==
    CASE op = "getSecret" -> 1
      [] op = "getEvents" -> 2
      [] op = "ensureCalendarRecord" -> 3
      [] op = "saveMany" -> 4
      [] op = "updateLastSyncTime" -> 5

C7_PhasesInOrder ==
    \A c \in CalIds :
        /\ \A i, j \in 1..Len(opLog[c]) : i < j => Rank(opLog[c][i].op) < Rank(opLog[c][j].op)
        /\ Called(c, "ensureCalendarRecord") => FetchOk(c)
        /\ Called(c, "saveMany") => FetchOk(c)
        /\ Called(c, "updateLastSyncTime") => FetchOk(c) /\ SaveOk(c)
        /\ pc[c] = "done" => FetchOk(c) /\ SaveOk(c)
        /\ EventsOfCalendar(calendar_events, USER, c) # EventsOfCalendar(pre.calendar_events, USER, c)
              => FetchOk(c)
        /\ getLastSyncTime(calendar_sync_state, USER, c) # getLastSyncTime(pre.calendar_sync_state, USER, c)
              => /\ FetchOk(c) /\ SaveOk(c)
                 /\ Answer(c, "updateLastSyncTime", "ok")
                 /\ getLastSyncTime(calendar_sync_state, USER, c) = now
        /\ pc[c] = "failed"
              => getLastSyncTime(calendar_sync_state, USER, c) = getLastSyncTime(pre.calendar_sync_state, USER, c)

C7_Witness ==
    \E c \in CalIds :
        /\ mode = "all"
        /\ pc[c] = "failed"
        /\ Answer(c, "saveMany", "err")
        /\ getLastSyncTime(pre.calendar_sync_state, USER, c) > 0
        /\ getLastSyncTime(calendar_sync_state, USER, c) < now

(***************************************************************************)
(* C8: after a successful sync of a calendar the cached events of that     *)
(* calendar within the sync window are exactly the events the provider     *)
(* returned in that run.                                                   *)
(***************************************************************************)
CachedInWindow(c) ==
    { r \in EventsOfCalendar(calendar_events, USER, c) :
        r.start_time <= getSyncTimeRange(now).end /\ r.end_time >= getSyncTimeRange(now).start }

C8_CacheIsTheFetchedRange ==
    \A c \in CalIds :
        pc[c] = "done" => CachedInWindow(c) = { EventRow(USER, e) : e \in events[c] }

(***************************************************************************)
(* C9: syncCalendar is the per-calendar step of syncAllCalendars: for the  *)
(* same calendar config and the same provider and storage outcomes the two *)
(* perform the same sequence of cache operations (ensure calendar record,  *)
(* upsert events, update sync state).                                      *)
(***************************************************************************)
CacheOps(log) ==
    SelectSeq(OpsOf(log),
              LAMBDA op : op \in {"ensureCalendarRecord", "saveMany", "updateLastSyncTime"})

(* what the calls both use cases share were answered *)
Outcomes(log) == SelectSeq(log, LAMBDA entry : entry.op # "ensureCalendarRecord")

OtherMode == IF mode = "all" THEN "single" ELSE "all"

C9_SameCacheOperations ==
    \A c \in CalIds :
        ( /\ phase = "returned"
          /\ pc[c] \in {"done", "failed"}
          /\ lastLog[OtherMode][c] # <<>>
          /\ Outcomes(lastLog[OtherMode][c]) = Outcomes(opLog[c]) )
        => CacheOps(lastLog[OtherMode][c]) = CacheOps(opLog[c])

(***************************************************************************)
(* C10: when updating the sync-state timestamp fails after the fetch and   *)
(* the event persist both succeeded, the calendar still counts as a sync   *)
(* success (counted in successCount and absent from errorCalendars;        *)
(* syncCalendar returns Ok with the event count) and the persisted events  *)
(* stay in the cache.                                                      *)
(***************************************************************************)
UpdateFailed(c) == Answer(c, "updateLastSyncTime", "err")

C10_SyncStateFailureStillSuccess ==
    \A c \in CalIds :
        (FetchOk(c) /\ SaveOk(c) /\ UpdateFailed(c)) =>
            /\ pc[c] = "done"
            /\ Persisted(c)
            /\ BatchReported =>
                  /\ c \notin ListedIds
                  /\ result.successCount =
                        Cardinality({ d \in IdsOf(loaded) : FetchOk(d) /\ SaveOk(d) })
            /\ (mode = "single" /\ phase = "returned") =>
                  /\ result.tag = "ok"
                  /\ result.calendarId = c
                  /\ result.eventCount = Cardinality(events[c])

C10_Witness ==
    \E c \in CalIds :
        /\ BatchReported
        /\ FetchOk(c) /\ SaveOk(c) /\ UpdateFailed(c)
        /\ events[c] # {}
        /\ result.successCount = 1
        /\ result.errorCalendars = <<>>
        /\ getLastSyncTime(calendar_sync_state, USER, c) = 0

(***************************************************************************)
(* C18: a Secret Store read or decryption error for a Google account's     *)
(* stored token is reported with an error code that differs from the one   *)
(* reported when no token is stored for the account.                       *)
(***************************************************************************)
SecretUnreadable(c) == pc[c] = "failed" /\ Answer(c, "getSecret", "err")

TokenAbsent(c) ==
    /\ pc[c] = "failed"
    /\ Answer(c, "getSecret", "ok")
    /\ ~ Called(c, "getEvents")

OTHER_USER == "u2"

Tenants == {USER, OTHER_USER}

ENCRYPTION_KEY == "k1"

createCalendarContext(userId, encryptionKey) ==
    [userId |-> userId, encryptionKey |-> encryptionKey]

run == <<now, runsLeft, mode, target, phase, configRead, loaded, syncTime, pc, events,
         taskError, result, opLog, pre, lastLog>>

NoRun ==
    /\ now = 0
    /\ runsLeft = 0
    /\ mode = "none"
    /\ target = 0
    /\ phase = "idle"
    /\ configRead = "none"
    /\ loaded = <<>>
    /\ syncTime = 0
    /\ pc = [c \in CalIds |-> "none"]
    /\ events = [c \in CalIds |-> {}]
    /\ taskError = [c \in CalIds |-> NoError]
    /\ result = [tag |-> "none"]
    /\ opLog = [c \in CalIds |-> <<>>]
    /\ pre = [calendars |-> {}, calendar_events |-> {}, calendar_sync_state |-> {}]
    /\ lastLog = [m \in {"all", "single"} |-> [c \in CalIds |-> <<>>]]

Snapshot ==
    [user_settings |-> user_settings, credentials |-> credentials, calendars |-> calendars,
     calendar_events |-> calendar_events, calendar_sync_state |-> calendar_sync_state]

Repeats(op, ctx, arg) ==
    call.op = op /\ call.userId = ctx.userId /\ call.arg = arg /\ call.ok

(* a caller makes a new call, or makes the call it has just made again *)
MayCall(op, ctx, arg) == call.op = "none" \/ Repeats(op, ctx, arg)

(* the caller has taken the answer *)
CallReturns ==
    /\ call.op # "none"
    /\ call' = NoCall
    /\ UNCHANGED <<tables, run, provider>>

Reply(op, ctx, arg, ok, value) ==
    [op |-> op, userId |-> ctx.userId, encryptionKey |-> ctx.encryptionKey, arg |-> arg,
     ok |-> ok, value |-> value, before |-> Snapshot, again |-> ok /\ Repeats(op, ctx, arg)]

(***************************************************************************)
(* D1EventRepository: the event cache.                                     *)
(***************************************************************************)
MaxRows == 3

BatchLengths == 0..2

CacheEventIds == {1, 2}

CacheCalendarIds == {1, 2}

QueryDays == 1..4

(* an event spanning every query range, and a one-day event *)
EventTimes == { [start |-> 1, end |-> 4], [start |-> 3, end |-> 3] }

CalendarEvents ==
    { [id |-> i, calendarId |-> c, startTime |-> t.start, endTime |-> t.end] :
        i \in CacheEventIds, c \in CacheCalendarIds, t \in EventTimes }

Batches == UNION { [1..n -> CalendarEvents] : n \in BatchLengths }

TimeRanges == { [start |-> a, end |-> b] : a \in QueryDays, b \in QueryDays }

rowToEvent(row) ==
    [id |-> row.id, calendarId |-> row.calendar_id,
     startTime |-> row.start_time, endTime |-> row.end_time]

(* ORDER BY start_time ASC; rows of equal start_time come in any order *)
OrderByStartTime(rows) ==
    { s \in [1..Cardinality(rows) -> rows] :
        /\ \A i, j \in 1..Cardinality(rows) : i # j => s[i] # s[j]
        /\ \A i, j \in 1..Cardinality(rows) : i < j => s[i].start_time <= s[j].start_time }

MapRows(s) == [i \in 1..Len(s) |-> rowToEvent(s[i])]

findByRange_contained(table, userId, range) ==
    { r \in table :
        r.user_id = userId /\ r.start_time >= range.start /\ r.end_time <= range.end }

(* WHERE user_id = ? AND start_time <= range.end AND end_time >= range.start *)
findByRange(table, userId, range) ==
    { r \in table :
        r.user_id = userId /\ r.start_time <= range.end /\ r.end_time >= range.start }

(* WHERE user_id = ? AND calendar_id = ? *)
findByCalendarId(table, userId, calendarId) ==
    { r \in table : r.user_id = userId /\ r.calendar_id = calendarId }

InsertOrReplaceEvent_insertOnly(table, userId, event) ==
    table \cup { EventRow(userId, event) }

(* one INSERT OR REPLACE statement of saveMany; the primary key is         *)
(* (id, calendar_id, user_id)                                              *)
InsertOrReplaceEvent(table, userId, event) ==
    { r \in table :
        ~ (r.id = event.id /\ r.calendar_id = event.calendarId /\ r.user_id = userId) }
    \cup { EventRow(userId, event) }

(* the statements of one batch, in the order of the events array *)
RECURSIVE saveManyBatch(_, _, _)
saveManyBatch(table, userId, batch) ==
    IF batch = <<>> THEN table
    ELSE saveManyBatch(InsertOrReplaceEvent(table, userId, Head(batch)), userId, Tail(batch))

deleteByCalendar_anyUser(table, userId, calendarId) ==
    { r \in table : r.calendar_id # calendarId }

(* DELETE FROM calendar_events WHERE user_id = ? AND calendar_id = ? *)
deleteByCalendar(table, userId, calendarId) ==
    { r \in table : ~ (r.user_id = userId /\ r.calendar_id = calendarId) }

FindByRange(ctx, range, dbOk) ==
    /\ MayCall("findByRange", ctx, range)
    /\ \E s \in OrderByStartTime(findByRange(calendar_events, ctx.userId, range)) :
          call' = Reply("findByRange", ctx, range, dbOk,
                        IF dbOk THEN MapRows(s) ELSE "DB_QUERY_ERROR")
    /\ UNCHANGED <<tables, run, provider>>

FindByCalendarId(ctx, calendarId, dbOk) ==
    /\ MayCall("findByCalendarId", ctx, calendarId)
    /\ \E s \in OrderByStartTime(findByCalendarId(calendar_events, ctx.userId, calendarId)) :
          call' = Reply("findByCalendarId", ctx, calendarId, dbOk,
                        IF dbOk THEN MapRows(s) ELSE "DB_QUERY_ERROR")
    /\ UNCHANGED <<tables, run, provider>>

(* the tables of the model hold MaxRows rows at most *)
RowCount ==
    Cardinality(user_settings) + Cardinality(credentials) + Cardinality(calendars)
    + Cardinality(calendar_events) + Cardinality(calendar_sync_state)

Fits(table, written) == RowCount - Cardinality(table) + Cardinality(written) <= MaxRows

(* an empty array returns Ok before the database is touched *)
SaveMany(ctx, batch, dbOk) ==
    /\ MayCall("saveMany", ctx, batch)
    /\ Fits(calendar_events, saveManyBatch(calendar_events, ctx.userId, batch))
    /\ LET ok == batch = <<>> \/ dbOk IN
         /\ calendar_events' = IF ok THEN saveManyBatch(calendar_events, ctx.userId, batch)
                               ELSE calendar_events
         /\ call' = Reply("saveMany", ctx, batch, ok, IF ok THEN "void" ELSE "DB_WRITE_ERROR")
    /\ UNCHANGED <<user_settings, credentials, calendars, calendar_sync_state, run, provider>>

DeleteByCalendar(ctx, calendarId, dbOk) ==
    /\ MayCall("deleteByCalendar", ctx, calendarId)
    /\ calendar_events' = IF dbOk THEN deleteByCalendar(calendar_events, ctx.userId, calendarId)
                          ELSE calendar_events
    /\ call' = Reply("deleteByCalendar", ctx, calendarId, dbOk,
                      IF dbOk THEN "void" ELSE "DB_WRITE_ERROR")
    /\ UNCHANGED <<user_settings, credentials, calendars, calendar_sync_state, run, provider>>

Contexts == { createCalendarContext(u, ENCRYPTION_KEY) : u \in Tenants }

InitEvents ==
    /\ NoRun
    /\ user_settings = {}
    /\ credentials = {}
    /\ calendars = {}
    /\ calendar_events = {}
    /\ calendar_sync_state = {}
    /\ call = NoCall
    /\ provider = NoProvider

NextEvents ==
    \/ \E ctx \in Contexts, range \in TimeRanges, dbOk \in BOOLEAN : FindByRange(ctx, range, dbOk)
    \/ \E ctx \in Contexts, c \in CacheCalendarIds, dbOk \in BOOLEAN : FindByCalendarId(ctx, c, dbOk)
    \/ \E ctx \in Contexts, batch \in Batches, dbOk \in BOOLEAN : SaveMany(ctx, batch, dbOk)
    \/ \E ctx \in Contexts, c \in CacheCalendarIds, dbOk \in BOOLEAN : DeleteByCalendar(ctx, c, dbOk)
    \/ CallReturns

SpecEvents == InitEvents /\ [][NextEvents]_vars

(***************************************************************************)
(* C11: saveMany is an idempotent bulk upsert keyed by (event id,          *)
(* calendarId, userId): the cache never holds two rows of one key; after a *)
(* save every key of the batch carries the values of the latest event of   *)
(* that key and every other row is as it was; saving the same events again *)
(* changes nothing; and saving the empty list returns Ok and changes       *)
(* nothing.                                                                *)
(***************************************************************************)
KeyOf(row) == <<row.id, row.calendar_id, row.user_id>>

BatchKeys(userId, batch) == { KeyOf(EventRow(userId, batch[i])) : i \in 1..Len(batch) }

(* the last event of the batch with the key of its i-th event *)
LatestInBatch(batch, i) ==
    LET same == { j \in 1..Len(batch) :
                    batch[j].id = batch[i].id /\ batch[j].calendarId = batch[i].calendarId }
    IN  batch[CHOOSE j \in same : \A k \in same : k <= j]

C11_SaveManyIdempotentUpsert ==
    /\ \A r1, r2 \in calendar_events : KeyOf(r1) = KeyOf(r2) => r1 = r2
    /\ call.op = "saveMany" =>
          /\ call.arg = <<>> => call.ok
          /\ call.ok =>
                /\ \A i \in 1..Len(call.arg) :
                      EventRow(call.userId, LatestInBatch(call.arg, i)) \in calendar_events
                /\ { r \in calendar_events : KeyOf(r) \notin BatchKeys(call.userId, call.arg) }
                   = { r \in call.before.calendar_events :
                         KeyOf(r) \notin BatchKeys(call.userId, call.arg) }
                /\ call.again => calendar_events = call.before.calendar_events
                /\ call.arg = <<>> => calendar_events = call.before.calendar_events

(* the same key saved twice in one batch with different times, over a row  *)
(* of that key, next to the same event id in another calendar and of       *)
(* another user                                                            *)
C11_Witness ==
    /\ call.op = "saveMany" /\ call.ok
    /\ Len(call.arg) = 2
    /\ call.arg[1].id = call.arg[2].id
    /\ call.arg[1].calendarId = call.arg[2].calendarId
    /\ call.arg[1].startTime # call.arg[2].startTime
    /\ EventRow(call.userId, call.arg[1]) \in call.before.calendar_events
    /\ EventRow(call.userId, call.arg[2]) \in calendar_events
    /\ \E r \in calendar_events : r.id = call.arg[1].id /\ r.user_id # call.userId
    /\ \E r \in calendar_events :
          r.id = call.arg[1].id /\ r.user_id = call.userId /\ r.calendar_id # call.arg[1].calendarId
    /\ Cardinality(calendar_events) = 3

(***************************************************************************)
(* C12: findByRange returns exactly the bound user's cached events with    *)
(* start <= range.end and end >= range.start (overlap, not containment),   *)
(* each once, ordered by start time ascending.                             *)
(***************************************************************************)
Overlapping(userId, range) ==
    { rowToEvent(r) : r \in { x \in calendar_events :
                               /\ x.user_id = userId
                               /\ x.start_time <= range.end
                               /\ x.end_time >= range.start } }

C13_DeleteByCalendarFrame ==
    (call.op = "deleteByCalendar" /\ call.ok) =>
        /\ findByCalendarId(calendar_events, call.userId, call.arg) = {}
        /\ \A r \in call.before.calendar_events :
              (r.user_id # call.userId \/ r.calendar_id # call.arg) => r \in calendar_events
        /\ calendar_events \subseteq call.before.calendar_events

C13_Witness ==
    /\ call.op = "deleteByCalendar" /\ call.ok
    /\ \E r \in call.before.calendar_events : r.user_id = call.userId /\ r.calendar_id = call.arg
    /\ \E r \in calendar_events : r.user_id = call.userId /\ r.calendar_id # call.arg
    /\ \E r \in calendar_events : r.user_id # call.userId /\ r.calendar_id = call.arg

(***************************************************************************)
(* D1EventRepository: sync state and calendar records.                     *)
(***************************************************************************)
SyncTimes == {1, 2}

RecordNames == {101, 102}

GetLastSyncTime(ctx, calendarId, dbOk) ==
    /\ MayCall("getLastSyncTime", ctx, calendarId)
    /\ call' = Reply("getLastSyncTime", ctx, calendarId, dbOk,
                     IF dbOk THEN getLastSyncTime(calendar_sync_state, ctx.userId, calendarId)
                     ELSE "DB_QUERY_ERROR")
    /\ UNCHANGED <<tables, run, provider>>

UpdateLastSyncTime(ctx, calendarId, time, dbOk) ==
    /\ MayCall("updateLastSyncTime", ctx, <<calendarId, time>>)
    /\ Fits(calendar_sync_state,
            updateLastSyncTime(calendar_sync_state, ctx.userId, calendarId, time))
    /\ calendar_sync_state' =
          IF dbOk THEN updateLastSyncTime(calendar_sync_state, ctx.userId, calendarId, time)
          ELSE calendar_sync_state
    /\ call' = Reply("updateLastSyncTime", ctx, <<calendarId, time>>, dbOk,
                     IF dbOk THEN "void" ELSE "DB_WRITE_ERROR")
    /\ UNCHANGED <<user_settings, credentials, calendars, calendar_events, run, provider>>

(* a caller may ensure the record of one calendar again with other values *)
EnsureCalendarRecord(ctx, calendarId, name, isActive, dbOk) ==
    LET arg == [calendarId |-> calendarId, name |-> name, isActive |-> isActive]
        repeats == /\ call.op = "ensureCalendarRecord"
                   /\ call.userId = ctx.userId
                   /\ call.arg.calendarId = calendarId
                   /\ call.ok
        written == ensureCalendarRecord(calendars, ctx.userId, calendarId, name, "ical",
                                        JsonStringify(name), isActive)
    IN  /\ call.op = "none" \/ repeats
        /\ Fits(calendars, written)
        /\ calendars' = IF dbOk THEN written ELSE calendars
        /\ call' = [ Reply("ensureCalendarRecord", ctx, arg, dbOk,
                           IF dbOk THEN "void" ELSE "DB_WRITE_ERROR")
                     EXCEPT !.again = dbOk /\ repeats ]
        /\ UNCHANGED <<user_settings, credentials, calendar_events, calendar_sync_state,
                       run, provider>>

(***************************************************************************)
(* D1ConfigRepository.                                                     *)
(***************************************************************************)
StoredSettings == { EmptyString, NotJson }

setSetting_insertOnly(table, userId, key, value) ==
    IF \E r \in table : r.user_id = userId /\ r.key = key THEN table
    ELSE table \cup { [user_id |-> userId, key |-> key, value |-> value] }

(* INSERT OR REPLACE keyed by (user_id, key) *)
setSetting(table, userId, key, value) ==
    { r \in table : ~ (r.user_id = userId /\ r.key = key) }
    \cup { [user_id |-> userId, key |-> key, value |-> value] }

GetSetting(ctx, key, dbOk) ==
    /\ MayCall("getSetting", ctx, key)
    /\ call' = Reply("getSetting", ctx, key, dbOk,
                     IF dbOk THEN getSetting(ctx.userId, key) ELSE "CONFIG_PARSE_ERROR")
    /\ UNCHANGED <<tables, run, provider>>

SetSetting(ctx, key, value, dbOk) ==
    /\ MayCall("setSetting", ctx, <<key, value>>)
    /\ Fits(user_settings, setSetting(user_settings, ctx.userId, key, value))
    /\ user_settings' = IF dbOk THEN setSetting(user_settings, ctx.userId, key, value)
                        ELSE user_settings
    /\ call' = Reply("setSetting", ctx, <<key, value>>, dbOk,
                     IF dbOk THEN "void" ELSE "CONFIG_WRITE_FAILED")
    /\ UNCHANGED <<credentials, calendars, calendar_events, calendar_sync_state, run, provider>>

(***************************************************************************)
(* web-crypto-encryption and D1SecretRepository.  AES-256-GCM is taken as  *)
(* an authenticated cipher: a ciphertext names the plaintext, the key and  *)
(* the IV it was made with, and decrypts only under that key and only as   *)
(* long as no byte of it was changed.                                      *)
(***************************************************************************)
Plain(text) == [kind |-> "plain", data |-> text]

encrypt(plaintext, key, iv) ==
    [kind |-> "cipher", plain |-> plaintext, key |-> key, iv |-> iv, intact |-> TRUE]

decrypt(encrypted, key) ==
    IF encrypted.intact /\ encrypted.key = key
    THEN [ok |-> TRUE, value |-> encrypted.plain]
    ELSE [ok |-> FALSE, error |-> "decryptionFailed"]

SecretRows(table, userId, key) == { r \in table : r.user_id = userId /\ r.key = key }

upsertSecret_keepsOld(table, userId, key, encrypted) ==
    IF SecretRows(table, userId, key) # {} THEN table
    ELSE table \cup { [user_id |-> userId, key |-> key, value |-> encrypted] }

(* INSERT OR REPLACE keyed by (user_id, key) *)
upsertSecret(table, userId, key, encrypted) ==
    (table \ SecretRows(table, userId, key))
    \cup { [user_id |-> userId, key |-> key, value |-> encrypted] }

deleteSecret_anyUser(table, userId, key) == { r \in table : r.key # key }

(* DELETE FROM credentials WHERE user_id = ? AND key = ? *)
deleteSecret(table, userId, key) == table \ SecretRows(table, userId, key)

getSecretResult_masked(table, ctx, key, dbOk) ==
    IF ~ dbOk THEN [ok |-> FALSE, value |-> "secretReadFailed"]
    ELSE IF SecretRows(table, ctx.userId, key) = {} THEN [ok |-> TRUE, value |-> Null]
    ELSE LET row == CHOOSE r \in SecretRows(table, ctx.userId, key) : TRUE
             decryptResult == decrypt(row.value, ctx.encryptionKey)
         IN  IF ~ decryptResult.ok
             THEN [ok |-> TRUE, value |-> Null]
             ELSE [ok |-> TRUE, value |-> decryptResult.value]

(* what getSecret answers on a table *)
getSecretResult(table, ctx, key, dbOk) ==
    IF ~ dbOk THEN [ok |-> FALSE, value |-> "secretReadFailed"]
    ELSE IF SecretRows(table, ctx.userId, key) = {} THEN [ok |-> TRUE, value |-> Null]
    ELSE LET row == CHOOSE r \in SecretRows(table, ctx.userId, key) : TRUE
             decryptResult == decrypt(row.value, ctx.encryptionKey)
         IN  IF ~ decryptResult.ok
             THEN [ok |-> FALSE, value |-> "secretReadFailed: decryptionFailed"]
             ELSE [ok |-> TRUE, value |-> decryptResult.value]

GetSecret(ctx, key, dbOk) ==
    /\ MayCall("getSecret", ctx, key)
    /\ LET answer == getSecretResult(credentials, ctx, key, dbOk) IN
         call' = Reply("getSecret", ctx, key, answer.ok, answer.value)
    /\ UNCHANGED <<tables, run, provider>>

SetSecret(ctx, key, value, iv, encryptOk, dbOk) ==
    /\ MayCall("setSecret", ctx, <<key, value>>)
    /\ LET written == upsertSecret(credentials, ctx.userId, key,
                                   encrypt(value, ctx.encryptionKey, iv))
       IN  /\ Fits(credentials, written)
           /\ IF ~ encryptOk
              THEN /\ call' = Reply("setSecret", ctx, <<key, value>>, FALSE,
                                    "secretWriteFailed: encryptionFailed")
                   /\ UNCHANGED credentials
              ELSE IF ~ dbOk
              THEN /\ call' = Reply("setSecret", ctx, <<key, value>>, FALSE, "secretWriteFailed")
                   /\ UNCHANGED credentials
              ELSE /\ call' = Reply("setSecret", ctx, <<key, value>>, TRUE, "void")
                   /\ credentials' = written
    /\ UNCHANGED <<user_settings, calendars, calendar_events, calendar_sync_state, run, provider>>

DeleteSecret(ctx, key, dbOk) ==
    /\ MayCall("deleteSecret", ctx, key)
    /\ credentials' = IF dbOk THEN deleteSecret(credentials, ctx.userId, key) ELSE credentials
    /\ call' = Reply("deleteSecret", ctx, key, dbOk,
                     IF dbOk THEN "void" ELSE "secretDeleteFailed")
    /\ UNCHANGED <<user_settings, calendars, calendar_events, calendar_sync_state, run, provider>>

HasSecret(ctx, key, dbOk) ==
    /\ MayCall("hasSecret", ctx, key)
    /\ call' = Reply("hasSecret", ctx, key, dbOk,
                     IF dbOk THEN SecretRows(credentials, ctx.userId, key) # {}
                     ELSE "secretReadFailed")
    /\ UNCHANGED <<tables, run, provider>>

(* a stored ciphertext is changed behind the store's back *)
TamperCiphertext(userId, key) ==
    /\ call.op = "none"
    /\ \E r \in SecretRows(credentials, userId, key) :
          /\ r.value.intact
          /\ credentials' = (credentials \ {r}) \cup { [r EXCEPT !.value.intact = FALSE] }
    /\ UNCHANGED <<user_settings, calendars, calendar_events, calendar_sync_state, call, run,
                   provider>>

(***************************************************************************)
(* Two tenants over one database: every repository method, on the same     *)
(* calendar id, event id and keys.                                         *)
(***************************************************************************)
SharedCalendarId == 1

SharedEvents ==
    { [id |-> 1, calendarId |-> SharedCalendarId, startTime |-> t.start, endTime |-> t.end] :
        t \in EventTimes }

SharedBatches == { <<>> } \cup { <<e>> : e \in SharedEvents }

SharedRange == [start |-> 1, end |-> 4]

SecretKeys == { createGoogleOAuthKey(ACCOUNT) }

SecretValues == { Plain("s1"), Plain("s2") }

InitStore == InitEvents

NextStore ==
    \/ \E ctx \in Contexts, dbOk \in BOOLEAN : FindByRange(ctx, SharedRange, dbOk)
    \/ \E ctx \in Contexts, dbOk \in BOOLEAN : FindByCalendarId(ctx, SharedCalendarId, dbOk)
    \/ \E ctx \in Contexts, batch \in SharedBatches, dbOk \in BOOLEAN : SaveMany(ctx, batch, dbOk)
    \/ \E ctx \in Contexts, dbOk \in BOOLEAN : DeleteByCalendar(ctx, SharedCalendarId, dbOk)
    \/ \E ctx \in Contexts, dbOk \in BOOLEAN : GetLastSyncTime(ctx, SharedCalendarId, dbOk)
    \/ \E ctx \in Contexts, time \in SyncTimes, dbOk \in BOOLEAN :
          UpdateLastSyncTime(ctx, SharedCalendarId, time, dbOk)
    \/ \E ctx \in Contexts, name \in RecordNames, isActive \in BOOLEAN, dbOk \in BOOLEAN :
          EnsureCalendarRecord(ctx, SharedCalendarId, name, isActive, dbOk)
    \/ \E ctx \in Contexts, dbOk \in BOOLEAN : GetSetting(ctx, CALENDARS_KEY, dbOk)
    \/ \E ctx \in Contexts, value \in StoredSettings, dbOk \in BOOLEAN :
          SetSetting(ctx, CALENDARS_KEY, value, dbOk)
    \/ \E ctx \in Contexts, key \in SecretKeys, dbOk \in BOOLEAN : GetSecret(ctx, key, dbOk)
    \/ \E ctx \in Contexts, key \in SecretKeys, value \in SecretValues,
          encryptOk \in BOOLEAN, dbOk \in BOOLEAN : SetSecret(ctx, key, value, 1, encryptOk, dbOk)
    \/ \E ctx \in Contexts, key \in SecretKeys, dbOk \in BOOLEAN : DeleteSecret(ctx, key, dbOk)
    \/ \E ctx \in Contexts, key \in SecretKeys, dbOk \in BOOLEAN : HasSecret(ctx, key, dbOk)
    \/ CallReturns

SpecStore == InitStore /\ [][NextStore]_vars

(***************************************************************************)
(* The Secret Store of one tenant: two keys, two values, a fresh IV per    *)
(* call, a request context that may carry another encryption key than the  *)
(* one a secret was stored under, and ciphertexts that may be tampered     *)
(* with.                                                                   *)
(***************************************************************************)
EncryptionKeys == { ENCRYPTION_KEY, "k2" }

IVs == {1, 2}

StoreKeys == { createGoogleOAuthKey(ACCOUNT), <<"llm", "api-key">> }

SecretContexts == { createCalendarContext(USER, k) : k \in EncryptionKeys }

InitSecrets == InitEvents

NextSecrets ==
    \/ \E ctx \in SecretContexts, key \in StoreKeys, dbOk \in BOOLEAN : GetSecret(ctx, key, dbOk)
    \/ \E ctx \in SecretContexts, key \in StoreKeys, value \in SecretValues, iv \in IVs,
          encryptOk \in BOOLEAN, dbOk \in BOOLEAN : SetSecret(ctx, key, value, iv, encryptOk, dbOk)
    \/ \E ctx \in SecretContexts, key \in StoreKeys, dbOk \in BOOLEAN : DeleteSecret(ctx, key, dbOk)
    \/ \E ctx \in SecretContexts, key \in StoreKeys, dbOk \in BOOLEAN : HasSecret(ctx, key, dbOk)
    \/ \E key \in StoreKeys : TamperCiphertext(USER, key)
    \/ CallReturns

SpecSecrets == InitSecrets /\ [][NextSecrets]_vars

(***************************************************************************)
(* C15: ensureCalendarRecord is insert-if-absent and idempotent: a record  *)
(* of that id that exists keeps its name, type, config and active flag,    *)
(* also when the call carries other values; an absent one is inserted with *)
(* the values of the call; repeating the call changes nothing.             *)
(***************************************************************************)
C15_EnsureCalendarRecordInsertIfAbsent ==
    (call.op = "ensureCalendarRecord" /\ call.ok) =>
        LET existing == { r \in call.before.calendars : r.id = call.arg.calendarId } IN
        /\ call.before.calendars \subseteq calendars
        /\ existing # {} => calendars = call.before.calendars
        /\ existing = {} =>
              calendars = call.before.calendars
                          \cup { [id |-> call.arg.calendarId, user_id |-> call.userId,
                                  name |-> call.arg.name, type |-> "ical",
                                  config |-> JsonStringify(call.arg.name),
                                  is_active |-> call.arg.isActive] }
        /\ call.again => calendars = call.before.calendars

C15_Witness ==
    /\ call.op = "ensureCalendarRecord" /\ call.ok /\ call.again
    /\ \E r \in calendars :
          /\ r.id = call.arg.calendarId
          /\ r.user_id = call.userId
          /\ r.name # call.arg.name
          /\ r.is_active # call.arg.isActive

(***************************************************************************)
(* C16: tenant isolation: whatever a user does through the repositories of *)
(* their request context, the stored rows of every other user and the      *)
(* answers to every other user's reads (findByRange, findByCalendarId,     *)
(* getLastSyncTime, getSetting, getSecret, hasSecret) stay as they were,   *)
(* also on the same calendar ids, event ids and keys.                      *)
(***************************************************************************)
RowsOf(snapshot, userId) ==
    [user_settings |-> { r \in snapshot.user_settings : r.user_id = userId },
     credentials |-> { r \in snapshot.credentials : r.user_id = userId },
     calendars |-> { r \in snapshot.calendars : r.user_id = userId },
     calendar_events |-> { r \in snapshot.calendar_events : r.user_id = userId },
     calendar_sync_state |-> { r \in snapshot.calendar_sync_state : r.user_id = userId }]

ReadsOf(snapshot, userId) ==
    [findByRange |-> findByRange(snapshot.calendar_events, userId, SharedRange),
     findByCalendarId |-> findByCalendarId(snapshot.calendar_events, userId, SharedCalendarId),
     getLastSyncTime |-> getLastSyncTime(snapshot.calendar_sync_state, userId, SharedCalendarId),
     getSetting |-> { r.value : r \in { x \in snapshot.user_settings :
                                          x.user_id = userId /\ x.key = CALENDARS_KEY } },
     getSecret |-> [key \in SecretKeys |->
                      getSecretResult(snapshot.credentials,
                                      createCalendarContext(userId, ENCRYPTION_KEY), key, TRUE)],
     hasSecret |-> [key \in SecretKeys |-> SecretRows(snapshot.credentials, userId, key) # {}]]

C16_TenantIsolation ==
    call.op # "none" =>
        \A userId \in Tenants \ {call.userId} :
            /\ RowsOf(Snapshot, userId) = RowsOf(call.before, userId)
            /\ ReadsOf(Snapshot, userId) = ReadsOf(call.before, userId)

(* a user replaces their sync time of a calendar id another user has a     *)
(* sync time, an event and a secret for                                    *)
C16_Witness ==
    /\ call.op = "updateLastSyncTime" /\ call.ok
    /\ \E userId \in Tenants \ {call.userId} :
          /\ getLastSyncTime(calendar_sync_state, userId, call.arg[1]) \notin {0, call.arg[2]}
          /\ findByCalendarId(calendar_events, userId, call.arg[1]) # {}
    /\ getLastSyncTime(calendar_sync_state, call.userId, call.arg[1]) = call.arg[2]
    /\ getLastSyncTime(call.before.calendar_sync_state, call.userId, call.arg[1]) = 0

(***************************************************************************)
(* C17: getSecret never conflates a decryption failure with absence: an    *)
(* Ok(null) is answered if and only if no row exists for (userId, key); a  *)
(* row that does not decrypt (tampered ciphertext, other key) gives Err,   *)
(* never Ok(null) and never Ok with another plaintext than the stored one. *)
(***************************************************************************)
Decrypts(row, key) == row.value.intact /\ row.value.key = key

C17_DecryptionFailureIsNotAbsence ==
    call.op = "getSecret" =>
        LET rows == SecretRows(credentials, call.userId, call.arg) IN
        /\ call.ok => (call.value = Null <=> rows = {})
        /\ \A r \in rows :
              /\ ~ Decrypts(r, call.encryptionKey) => ~ call.ok
              /\ call.ok => call.value = r.value.plain
        /\ (rows = {} /\ ~ call.ok) => call.value = "secretReadFailed"

C17_Witness ==
    /\ call.op = "getSecret"
    /\ ~ call.ok
    /\ call.value = "secretReadFailed: decryptionFailed"
    /\ \E r \in SecretRows(credentials, call.userId, call.arg) :
          ~ r.value.intact /\ r.value.key = call.encryptionKey

(***************************************************************************)
(* C19: Secret Store round trip for one (userId, key): a successful        *)
(* setSecret leaves exactly one row of the key, the ciphertext of the      *)
(* value (the last set wins), which getSecret decrypts to that value and   *)
(* hasSecret reports; deleteSecret leaves no row of the key, so getSecret  *)
(* answers Ok(null) and hasSecret false, and succeeds on an absent key; a  *)
(* failed setSecret writes nothing; reads write nothing; only ciphertext   *)
(* is ever stored.                                                         *)
(***************************************************************************)
OtherSecretsKept ==
    { r \in credentials : ~ (r.user_id = call.userId /\ r.key = call.arg[1]) }
    = { r \in call.before.credentials : ~ (r.user_id = call.userId /\ r.key = call.arg[1]) }

C19_SecretRoundTrip ==
    /\ \A r \in credentials : r.value.kind = "cipher"
    /\ call.op = "setSecret" =>
          /\ call.ok =>
                /\ \E iv \in IVs :
                      SecretRows(credentials, call.userId, call.arg[1])
                      = { [user_id |-> call.userId, key |-> call.arg[1],
                           value |-> encrypt(call.arg[2], call.encryptionKey, iv)] }
                /\ getSecretResult(credentials,
                                   createCalendarContext(call.userId, call.encryptionKey),
                                   call.arg[1], TRUE) = [ok |-> TRUE, value |-> call.arg[2]]
                /\ OtherSecretsKept
          /\ ~ call.ok => credentials = call.before.credentials
    /\ call.op = "deleteSecret" =>
          /\ call.ok =>
                /\ SecretRows(credentials, call.userId, call.arg) = {}
                /\ getSecretResult(credentials,
                                   createCalendarContext(call.userId, call.encryptionKey),
                                   call.arg, TRUE) = [ok |-> TRUE, value |-> Null]
                /\ { r \in credentials : r.key # call.arg }
                   = { r \in call.before.credentials : r.key # call.arg }
          /\ ~ call.ok => call.value = "secretDeleteFailed" /\ credentials = call.before.credentials
    /\ call.op = "getSecret" =>
          /\ credentials = call.before.credentials
          /\ \A r \in SecretRows(credentials, call.userId, call.arg) :
                (Decrypts(r, call.encryptionKey) /\ (call.ok \/ call.value # "secretReadFailed"))
                    => call.ok /\ call.value = r.value.plain
    /\ call.op = "hasSecret" =>
          /\ credentials = call.before.credentials
          /\ call.ok => call.value = (SecretRows(credentials, call.userId, call.arg) # {})

(* a second set of a key replaces the first, next to another key *)
C19_Witness ==
    /\ call.op = "setSecret" /\ call.ok
    /\ \E r \in SecretRows(call.before.credentials, call.userId, call.arg[1]) :
          r.value.plain # call.arg[2]
    /\ \E r \in SecretRows(credentials, call.userId, call.arg[1]) : r.value.plain = call.arg[2]
    /\ \E r \in credentials : r.key # call.arg[1]

(***************************************************************************)
(* DELETE /api/calendars/[id].  The handler reads the user's "calendars"   *)
(* setting, removes the entry of the id, saves the list, deletes the       *)
(* calendar's cached events and answers 204.  Its position is kept in      *)
(* `call`: the awaited repository call it is about to make, or the status  *)
(* it responded with.                                                      *)
(***************************************************************************)
findIndex(list, id) ==
    IF \E i \in 1..Len(list) : list[i].id = id
    THEN CHOOSE i \in 1..Len(list) :
            list[i].id = id /\ \A j \in 1..(i - 1) : list[j].id # id
    ELSE -1

(* [...calendars.slice(0, index), ...calendars.slice(index + 1)] *)
RemoveAt(list, index) == SubSeq(list, 1, index - 1) \o SubSeq(list, index + 1, Len(list))

Responded(request, status, code) ==
    [request EXCEPT !.pc = "responded", !.status = status, !.code = code]

(* auth, context, getSetting, JSON.parse and findIndex *)
DELETE_getSetting(session, id, dbOk) ==
    /\ call.op = "none"
    /\ LET request == [op |-> "DELETE", userId |-> session, arg |-> id, pc |-> "getSetting",
                       status |-> 0, code |-> "none", updatedCalendars |-> <<>>,
                       before |-> Snapshot]
           stored == getSetting(session, CALENDARS_KEY)
           parsed == JsonParse(stored)
           list == IF stored = Null THEN <<>> ELSE parsed.value
       IN  call' =
             IF session = "none" THEN Responded(request, 401, "UNAUTHORIZED")
             ELSE IF ~ dbOk THEN Responded(request, 500, "DB_ERROR")
             ELSE IF stored # Null /\ parsed.threw THEN Responded(request, 500, "SyntaxError")
             ELSE IF findIndex(list, id) = -1 THEN Responded(request, 404, "CALENDAR_NOT_FOUND")
             ELSE [request EXCEPT !.pc = "setSetting",
                                  !.updatedCalendars = RemoveAt(list, findIndex(list, id))]
    /\ UNCHANGED <<tables, run, provider>>

DELETE_setSetting(dbOk) ==
    /\ call.op = "DELETE" /\ call.pc = "setSetting"
    /\ IF dbOk
       THEN /\ user_settings' = setSetting(user_settings, call.userId, CALENDARS_KEY,
                                           JsonStringify(call.updatedCalendars))
            /\ call' = [call EXCEPT !.pc = "deleteByCalendar"]
       ELSE /\ call' = Responded(call, 500, "CONFIG_SAVE_ERROR")
            /\ UNCHANGED user_settings
    /\ UNCHANGED <<credentials, calendars, calendar_events, calendar_sync_state, run, provider>>

(* a failed deletion of the cached events is logged only *)
DELETE_deleteByCalendar(dbOk) ==
    /\ call.op = "DELETE" /\ call.pc = "deleteByCalendar"
    /\ calendar_events' = IF dbOk THEN deleteByCalendar(calendar_events, call.userId, call.arg)
                          ELSE calendar_events
    /\ call' = Responded(call, 204, IF dbOk THEN "none" ELSE "warned")
    /\ UNCHANGED <<user_settings, credentials, calendars, calendar_sync_state, run, provider>>

(* registered lists of working iCal calendars; cached events and sync      *)
(* times of both tenants for the same calendar ids                         *)
DeleteLists ==
    { l \in CalendarLists :
        \A i \in 1..Len(l) : l[i].type = "ical" /\ l[i].icalUrl # "" /\ l[i].enabled }

DeleteSettings == { Null, NotJson } \cup { JsonStringify(l) : l \in DeleteLists }

Sessions == { "none" } \cup Tenants

InitDelete ==
    /\ NoRun
    /\ \E v \in DeleteSettings :
          user_settings = IF v = Null THEN {}
                          ELSE { [user_id |-> USER, key |-> CALENDARS_KEY, value |-> v] }
    /\ credentials = {}
    /\ calendars = {}
    /\ calendar_events \in SUBSET { [id |-> 1, calendar_id |-> c, user_id |-> u,
                                     start_time |-> 1, end_time |-> 1] :
                                    c \in CacheCalendarIds, u \in Tenants }
    /\ calendar_sync_state \in SUBSET { [calendar_id |-> c, user_id |-> USER,
                                         last_sync_time |-> 1] : c \in CacheCalendarIds }
    /\ call = NoCall
    /\ provider = NoProvider

NextDelete ==
    \/ \E session \in Sessions, id \in CalIds, dbOk \in BOOLEAN :
          DELETE_getSetting(session, id, dbOk)
    \/ \E dbOk \in BOOLEAN : DELETE_setSetting(dbOk)
    \/ \E dbOk \in BOOLEAN : DELETE_deleteByCalendar(dbOk)

SpecDelete == InitDelete /\ [][NextDelete]_vars

(***************************************************************************)
(* C14: when DELETE answers 204 for a calendar of the user, the calendar   *)
(* is no longer in the user's list, no cached event of (userId,            *)
(* calendarId) remains and getLastSyncTime(calendarId) answers none.       *)
(***************************************************************************)
ListedCalendars(userId) ==
    LET stored == getSetting(userId, CALENDARS_KEY) IN
    IF stored = Null \/ JsonParse(stored).threw THEN {} ELSE IdsOf(JsonParse(stored).value)

MaxClock == 3

TOKEN_EXPIRY_BUFFER == 5
DEFAULT_EXPIRES_IN == 60

(* CalendarError factories *)
NoCalendarError == [code |-> "none", accountEmail |-> "none", status |-> 0]

authExpired(accountEmail) ==
    [code |-> "AUTH_EXPIRED", accountEmail |-> accountEmail, status |-> 0]

apiError(status) == [code |-> "API_ERROR", accountEmail |-> "none", status |-> status]

networkError == [code |-> "NETWORK_ERROR", accountEmail |-> "none", status |-> 0]

NoResult == [ok |-> FALSE, error |-> NoCalendarError]

(* oauth-service: new Date(Date.now() + bufferMs) >= expiresAt *)
isTokenExpired(expiresAt, clock) == clock + TOKEN_EXPIRY_BUFFER >= expiresAt

(* token-store: the expiry check of a stored token pair *)
tokenStore_isTokenExpired(tokens, clock) == isTokenExpired(tokens.expiresAt, clock)

(* token-store: the token pair goes to the Secret Store under the account's key *)
tokenStore_saveTokens(table, userId, accountEmail, tokens) ==
    upsertSecret(table, userId, createGoogleOAuthKey(accountEmail),
                 encrypt(Plain(JsonStringify(tokens)), ENCRYPTION_KEY, 1))

(* refreshToken: expires_in of the response, or an hour *)
refreshedExpiresAt(expires_in, clock) ==
    IF expires_in # 0 THEN clock + expires_in ELSE clock + DEFAULT_EXPIRES_IN

(* refreshToken: the tokens of a successful answer of the token endpoint;  *)
(* an answer without refresh_token keeps the one sent                      *)
refreshedTokens(access_token, refresh_token, expires_in, refreshTokenValue, clock) ==
    [accessToken |-> access_token,
     refreshToken |-> IF refresh_token # "" THEN refresh_token ELSE refreshTokenValue,
     expiresAt |-> refreshedExpiresAt(expires_in, clock)]

(* what ensureValidToken does first: return Ok, or refresh *)
ensureValidToken_never(tokens, clock) == "valid"

ensureValidToken(tokens, clock) ==
    IF ~ tokenStore_isTokenExpired(tokens, clock) THEN "valid" ELSE "refresh"

(* ensureValidToken: this.tokens = refreshResult.value *)
swapTokens_keepsOld(tokens, refreshed) == tokens

swapTokens(tokens, refreshed) == refreshed

(* a failed refresh: ensureValidToken answers authExpired and the method   *)
(* returns it before its fetch                                             *)
refreshFailed_goesOn(adapter, accountEmail) == [adapter EXCEPT !.pc = "upstream"]

refreshFailed(adapter, accountEmail) ==
    [adapter EXCEPT !.pc = "returned",
                    !.result = [ok |-> FALSE, error |-> authExpired(accountEmail)]]

(* handleFetchError *)
handleFetchError_only401(status, accountEmail) ==
    IF status = 401 THEN authExpired(accountEmail) ELSE apiError(status)

handleFetchError(status, accountEmail) ==
    IF status = 401 \/ status = 403 THEN authExpired(accountEmail) ELSE apiError(status)

(* Response.ok *)
ResponseOk(status) == status >= 200 /\ status <= 299

(* the method after its fetch: a thrown fetch or body is a network error,  *)
(* a non-2xx status goes to handleFetchError, (data.items || []) is mapped *)
upstreamResult(response, accountEmail) ==
    IF response.threw THEN [ok |-> FALSE, error |-> networkError]
    ELSE IF ~ ResponseOk(response.status)
    THEN [ok |-> FALSE, error |-> handleFetchError(response.status, accountEmail)]
    ELSE IF ~ response.json THEN [ok |-> FALSE, error |-> networkError]
    ELSE [ok |-> TRUE, value |-> IF response.hasItems THEN response.items ELSE <<>>]

InitialExpiry == 0..(MaxClock + TOKEN_EXPIRY_BUFFER + 1)
ExpiresIn == { 0, 3, 6 }
AccessTokens == { "at1", "at2" }
RefreshTokens == { "", "rt1" }
ProviderMethods == { "getEvents", "getCalendars" }
TokenEndpointAnswers == { "ok", "API_ERROR", "NETWORK_ERROR" }

UpstreamResponses ==
    { [threw |-> TRUE, status |-> 0, json |-> FALSE, hasItems |-> FALSE, items |-> <<>>] }
    \cup { [threw |-> FALSE, status |-> st, json |-> FALSE, hasItems |-> FALSE, items |-> <<>>] :
           st \in { 200, 401, 403, 404, 500 } }
    \cup { [threw |-> FALSE, status |-> 200, json |-> TRUE, hasItems |-> h, items |-> it] :
           h \in BOOLEAN, it \in { <<>>, <<1>> } }

NoResponse == [threw |-> FALSE, status |-> 0, json |-> FALSE, hasItems |-> FALSE, items |-> <<>>]

InitialTokens(expiresAt) ==
    [accessToken |-> "at0", refreshToken |-> "rt0", expiresAt |-> expiresAt]

(* new GoogleCalendarProvider(accountEmail, tokens, secretRepo?) *)
NewProvider(tokens, secretRepo, clock) ==
    [pc |-> "idle", clock |-> clock, secretRepo |-> secretRepo, method |-> "none",
     tokens |-> tokens,
     checked |-> [clock |-> 0, expiresAt |-> 0, tokens |-> tokens, credentials |-> {}],
     remote |-> <<>>, issued |-> "none", bearer |-> "none", persist |-> "none",
     response |-> NoResponse, result |-> NoResult]

Tick ==
    /\ provider.clock < MaxClock
    /\ provider' = [provider EXCEPT !.clock = @ + 1]
    /\ UNCHANGED <<tables, run, call>>

(* getEvents / getCalendars up to the first await of ensureValidToken *)
startCall(adapter, method, table) ==
    [adapter EXCEPT
       !.method = method,
       !.checked = [clock |-> adapter.clock, expiresAt |-> adapter.tokens.expiresAt,
                    tokens |-> adapter.tokens, credentials |-> table],
       !.remote = <<>>,
       !.issued = "none",
       !.bearer = "none",
       !.persist = "none",
       !.response = NoResponse,
       !.result = NoResult,
       !.pc = IF ensureValidToken(adapter.tokens, adapter.clock) = "valid"
              THEN "upstream" ELSE "refreshing"]

Provider_call(method) ==
    /\ provider.pc \in { "idle", "returned" }
    /\ provider' = startCall(provider, method, credentials)
    /\ UNCHANGED <<tables, run, call>>

(* refreshToken answers; the new tokens are swapped in and, by an adapter  *)
(* that was given a Secret Store, saved                                    *)
Provider_refreshed(configured, answer, access_token, refresh_token, expires_in, saved) ==
    /\ provider.pc = "refreshing"
    /\ IF ~ configured
       THEN /\ provider' = refreshFailed(provider, ACCOUNT)
            /\ UNCHANGED credentials
       ELSE IF answer # "ok"
       THEN /\ provider' = refreshFailed([provider EXCEPT !.remote = Append(@, "tokenEndpoint")],
                                         ACCOUNT)
            /\ UNCHANGED credentials
       ELSE LET refreshed == refreshedTokens(access_token, refresh_token, expires_in,
                                             provider.tokens.refreshToken, provider.clock)
                tokens == swapTokens(provider.tokens, refreshed)
            IN  /\ access_token # provider.tokens.accessToken
                /\ provider' = [provider EXCEPT
                                  !.pc = "upstream", !.tokens = tokens,
                                  !.issued = access_token,
                                  !.remote = Append(@, "tokenEndpoint"),
                                  !.persist = IF ~ provider.secretRepo THEN "skipped"
                                              ELSE IF saved THEN "saved" ELSE "failed"]
                /\ credentials' = IF provider.secretRepo /\ saved
                                  THEN tokenStore_saveTokens(credentials, USER, ACCOUNT, tokens)
                                  ELSE credentials
    /\ UNCHANGED <<user_settings, calendars, calendar_events, calendar_sync_state, run, call>>

(* the fetch of the calendar API with the adapter's access token *)
Provider_upstream(response) ==
    /\ provider.pc = "upstream"
    /\ provider' = [provider EXCEPT !.pc = "returned",
                                    !.bearer = provider.tokens.accessToken,
                                    !.response = response,
                                    !.result = upstreamResult(response, ACCOUNT),
                                    !.remote = Append(@, "upstream")]
    /\ UNCHANGED <<tables, run, call>>

InitProvider ==
    /\ NoRun
    /\ user_settings = {}
    /\ credentials = {}
    /\ calendars = {}
    /\ calendar_events = {}
    /\ calendar_sync_state = {}
    /\ call = NoCall
    /\ \E expiresAt \in InitialExpiry, secretRepo \in BOOLEAN :
          provider = NewProvider(InitialTokens(expiresAt), secretRepo, 0)

NextProvider ==
    \/ Tick
    \/ \E method \in ProviderMethods : Provider_call(method)
    \/ \E configured \in BOOLEAN, answer \in TokenEndpointAnswers,
          access_token \in AccessTokens, refresh_token \in RefreshTokens,
          expires_in \in ExpiresIn, saved \in BOOLEAN :
          Provider_refreshed(configured, answer, access_token, refresh_token, expires_in, saved)
    \/ \E response \in UpstreamResponses : Provider_upstream(response)

SpecProvider == InitProvider /\ [][NextProvider]_vars

(***************************************************************************)
(* C20: before every upstream calendar call the Google adapter checks the  *)
(* expiry with a 5-minute buffer: with expiresAt <= now + 5 min the        *)
(* upstream call is made only after a call of the OAuth token endpoint     *)
(* (the boundary expiresAt = now + 5 min refreshes); with expiresAt >      *)
(* now + 5 min the upstream call is made without any refresh.              *)
(***************************************************************************)
C20_RefreshWithinFiveMinutes ==
    provider.pc \in { "refreshing", "upstream", "returned" } =>
        LET nearExpiry == provider.checked.expiresAt <= provider.checked.clock + 5 IN
        /\ provider.pc = "refreshing" => nearExpiry /\ provider.remote = <<>>
        /\ provider.pc = "upstream" =>
              provider.remote = IF nearExpiry THEN <<"tokenEndpoint">> ELSE <<>>
        /\ provider.pc = "returned" =>
              IF nearExpiry
              THEN provider.remote \in { <<>>, <<"tokenEndpoint">>, <<"tokenEndpoint", "upstream">> }
              ELSE provider.remote = <<"upstream">>
        /\ (nearExpiry /\ provider.pc = "returned" /\ provider.remote # <<"tokenEndpoint", "upstream">>)
              => ~ provider.result.ok /\ provider.result.error.code = "AUTH_EXPIRED"

(* a call at the boundary expiresAt = now + 5 min has refreshed and then   *)
(* fetched; the token of the call before was more than 5 minutes from expiry *)
C20_Witness ==
    /\ provider.pc = "returned"
    /\ provider.checked.clock > 0
    /\ provider.checked.expiresAt = provider.checked.clock + 5
    /\ provider.remote = <<"tokenEndpoint", "upstream">>
    /\ provider.tokens.accessToken = provider.issued
    /\ provider.result.ok

(***************************************************************************)
(* C22: on a successful token refresh the adapter swaps its in-memory      *)
(* tokens and the upstream request of the same call carries the refreshed  *)
(* access token; a failure to persist the refreshed tokens is not fatal:   *)
(* the call goes on to the upstream request and returns its result.        *)
(***************************************************************************)
C22_RefreshedTokenUsedPersistNotFatal ==
    provider.issued # "none" =>
        /\ provider.pc \in { "upstream", "returned" }
        /\ provider.tokens.accessToken = provider.issued
        /\ provider.tokens.accessToken # provider.checked.tokens.accessToken
        /\ provider.pc = "returned" =>
              /\ provider.remote = <<"tokenEndpoint", "upstream">>
              /\ provider.bearer = provider.issued
              /\ provider.result = upstreamResult(provider.response, ACCOUNT)
        /\ provider.persist = "failed" => credentials = provider.checked.credentials

C22_Witness ==
    /\ provider.pc = "returned"
    /\ provider.persist = "failed"
    /\ provider.issued # "none"
    /\ provider.bearer = provider.issued
    /\ provider.result.ok
    /\ provider.result.value # <<>>

(***************************************************************************)
(* C23: HTTP 401 and 403 from the calendar API become an "auth expired"    *)
(* error naming the account, every other non-2xx status a generic API      *)
(* error carrying the status, so the two differ; a 2xx answer with an      *)
(* empty or missing item list is a success with zero events.               *)
(***************************************************************************)
C23_AuthExpiredDistinctFromApiError ==
    (provider.pc = "returned" /\ provider.bearer # "none") =>
        LET response == provider.response IN
            /\ (~ response.threw /\ response.status \in { 401, 403 }) =>
                  /\ ~ provider.result.ok
                  /\ provider.result.error.code = "AUTH_EXPIRED"
                  /\ provider.result.error.accountEmail = ACCOUNT
            /\ (~ response.threw /\ ~ (response.status >= 200 /\ response.status <= 299)
                /\ response.status \notin { 401, 403 }) =>
                  /\ ~ provider.result.ok
                  /\ provider.result.error.code = "API_ERROR"
                  /\ provider.result.error.code # "AUTH_EXPIRED"
                  /\ provider.result.error.status = response.status
            /\ (~ response.threw /\ response.status = 200 /\ response.json
                /\ (~ response.hasItems \/ response.items = <<>>)) =>
                  provider.result = [ok |-> TRUE, value |-> <<>>]

C23_Witness ==
    /\ provider.pc = "returned"
    /\ provider.bearer # "none"
    /\ ~ provider.result.ok
    /\ provider.response.status = 403
    /\ provider.result.error.code = "AUTH_EXPIRED"
    /\ provider.remote = <<"upstream">>

(***************************************************************************)
(* C27: when the refresh of an expired token fails (token endpoint error,  *)
(* network error, missing OAuth client configuration) the method returns   *)
(* an "auth expired" error for the account, no upstream calendar request   *)
(* is made, and the adapter's tokens and the Secret Store are unchanged.   *)
(***************************************************************************)
RefreshHasFailed ==
    /\ provider.pc = "returned"
    /\ provider.checked.expiresAt <= provider.checked.clock + 5
    /\ provider.issued = "none"

C27_FailedRefreshStopsTheCall ==
    RefreshHasFailed =>
        /\ provider.result = [ok |-> FALSE, error |-> authExpired(ACCOUNT)]
        /\ provider.bearer = "none"
        /\ \A i \in 1..Len(provider.remote) : provider.remote[i] # "upstream"
        /\ provider.tokens = provider.checked.tokens
        /\ credentials = provider.checked.credentials

C27_Witness ==
    /\ RefreshHasFailed
    /\ provider.remote = <<"tokenEndpoint">>
    /\ provider.secretRepo
    /\ credentials # {}
    /\ provider.result.error.code = "AUTH_EXPIRED"

(***************************************************************************)
(* fetchGoogleCalendarEvents with the adapter's steps: a sync reads the    *)
(* account's token pair from the Secret Store, constructs an adapter from  *)
(* it and calls getEvents; the adapter is dropped when the fetch returns,  *)
(* and the next sync reads the Secret Store again.                         *)
(***************************************************************************)
StoredTokens(table, userId, accountEmail) ==
    { JsonParse(r.value.plain.data).value :
        r \in SecretRows(table, userId, createGoogleOAuthKey(accountEmail)) }

(* getSecret, JSON.parse, new GoogleCalendarProvider(accountEmail, tokens), getEvents *)
FetchGoogle_getEvents ==
    /\ provider.pc = "none"
    /\ LET answer == getSecretResult(credentials, createCalendarContext(USER, ENCRYPTION_KEY),
                                     createGoogleOAuthKey(ACCOUNT), TRUE)
       IN  /\ answer.ok
           /\ answer.value # Null
           /\ provider' = startCall(NewProvider(JsonParse(answer.value.data).value, FALSE,
                                                provider.clock),
                                    "getEvents", credentials)
    /\ UNCHANGED <<tables, run, call>>

(* the fetch has returned to the sync, which holds no adapter any more *)
FetchGoogle_returned ==
    /\ provider.pc = "returned"
    /\ provider' = [provider EXCEPT !.pc = "none"]
    /\ UNCHANGED <<tables, run, call>>

InitGoogleFetch ==
    /\ NoRun
    /\ user_settings = {}
    /\ calendars = {}
    /\ calendar_events = {}
    /\ calendar_sync_state = {}
    /\ call = NoCall
    /\ \E expiresAt \in InitialExpiry :
          /\ credentials = tokenStore_saveTokens({}, USER, ACCOUNT, InitialTokens(expiresAt))
          /\ provider = [NewProvider(InitialTokens(expiresAt), FALSE, 0) EXCEPT !.pc = "none"]

NextGoogleFetch ==
    \/ Tick
    \/ FetchGoogle_getEvents
    \/ \E configured \in BOOLEAN, answer \in TokenEndpointAnswers,
          access_token \in AccessTokens, refresh_token \in RefreshTokens,
          expires_in \in ExpiresIn, saved \in BOOLEAN :
          Provider_refreshed(configured, answer, access_token, refresh_token, expires_in, saved)
    \/ \E response \in UpstreamResponses : Provider_upstream(response)
    \/ FetchGoogle_returned

SpecGoogleFetch == InitGoogleFetch /\ [][NextGoogleFetch]_vars

(***************************************************************************)
(* C21: refreshed tokens are written back to the Secret Store: when a sync *)
(* of a Google calendar has refreshed the account's access token then,     *)
(* unless the persist itself failed, the Secret Store entry of the account *)
(* holds the refreshed token pair, so that the next sync reads it instead  *)
(* of the expired one.                                                     *)
(***************************************************************************)
C21_RefreshedTokensWrittenBack ==
    (provider.pc \in { "upstream", "returned" } /\ provider.issued # "none"
     /\ provider.persist # "failed") =>
        StoredTokens(credentials, USER, ACCOUNT) = { provider.tokens }

(***************************************************************************)
(* Query windows (domain/calendar/types).  Time is counted in hours since  *)
(* the epoch, in UTC; an instant is the hour it lies in, so 23:59:59.999   *)
(* of a day is the day's hour 23.  A calendar date is its day number.      *)
(***************************************************************************)
MaxInstant == 71

JST_OFFSET_MS == 9

(* Date.UTC(year, month, date, hours, ...), which carries a date past the  *)
(* end of the month over into the next                                     *)
DateUTC(date, hours) == date * 24 + hours

(* getUTCFullYear / getUTCMonth / getUTCDate of an instant *)
UTCDateOf(instant) == instant \div 24

getTodayRange(instant) ==
    LET jstNow == instant + JST_OFFSET_MS
        date == UTCDateOf(jstNow)
    IN  [startDate |-> DateUTC(date, 0) - JST_OFFSET_MS,
         endDate |-> DateUTC(date, 23) - JST_OFFSET_MS]

getWeekRange(instant) ==
    LET jstNow == instant + JST_OFFSET_MS
        date == UTCDateOf(jstNow)
    IN  [startDate |-> DateUTC(date, 0) - JST_OFFSET_MS,
         endDate |-> DateUTC(date + 7, 23) - JST_OFFSET_MS]

Instants == 0..MaxInstant
ServerOffsets == { -8, 0, 9 }

(* the server, in its local timezone, computes a window at some instant *)
GetTodayRange(instant, serverOffset) ==
    /\ call.op \in { "none", "getTodayRange", "getWeekRange" }
    /\ call' = [op |-> "getTodayRange", arg |-> instant, serverOffset |-> serverOffset,
                value |-> getTodayRange(instant)]
    /\ UNCHANGED <<tables, run, provider>>

GetWeekRange(instant, serverOffset) ==
    /\ call.op \in { "none", "getTodayRange", "getWeekRange" }
    /\ call' = [op |-> "getWeekRange", arg |-> instant, serverOffset |-> serverOffset,
                value |-> getWeekRange(instant)]
    /\ UNCHANGED <<tables, run, provider>>

InitRanges == InitEvents

NextRanges ==
    \/ \E instant \in Instants, serverOffset \in ServerOffsets :
          GetTodayRange(instant, serverOffset)
    \/ \E instant \in Instants, serverOffset \in ServerOffsets :
          GetWeekRange(instant, serverOffset)

SpecRanges == InitRanges /\ [][NextRanges]_vars

(***************************************************************************)
(* C24: the "week" window is the next 7 days starting today in JST: for    *)
(* every instant, getWeekRange starts at JST 00:00 of the JST date that    *)
(* contains the instant and covers exactly 7 calendar days (today and the  *)
(* 6 following days), whatever the server's local timezone.                *)
(***************************************************************************)
JstDateOf(instant) == (instant + 9) \div 24

C24_WeekIsSevenDaysFromTodayJst ==
    call.op = "getWeekRange" =>
        /\ call.value.startDate = JstDateOf(call.arg) * 24 - 9
        /\ { JstDateOf(t) : t \in call.value.startDate..call.value.endDate }
           = JstDateOf(call.arg)..(JstDateOf(call.arg) + 6)

(***************************************************************************)
(* C26: within one syncAllCalendars run over calendars with distinct ids   *)
(* the per-calendar syncs write disjoint rows: whatever the interleaving   *)
(* and completion order of their steps, the cached events, the calendar    *)
(* record and the sync state of a calendar are what its own task's calls   *)
(* made of the rows found at the start of the run, and the report counts   *)
(* the calendars in list order.                                            *)
(***************************************************************************)
RecordsOf(table, c) == { r \in table : r.id = c }

OwnEvents(c) ==
    EventsOfCalendar(IF SaveOk(c) THEN saveMany(pre.calendar_events, USER, events[c])
                     ELSE pre.calendar_events, USER, c)

OwnRecords(c) ==
    RecordsOf(IF Answer(c, "ensureCalendarRecord", "ok")
              THEN ensureCalendarRecord(pre.calendars, USER, c, ConfigOf(c).name, ConfigOf(c).type,
                                        JsonStringify(ConfigOf(c)), ConfigOf(c).enabled)
              ELSE pre.calendars, c)

OwnSyncTime(c) ==
    IF Answer(c, "updateLastSyncTime", "ok") THEN syncTime
    ELSE getLastSyncTime(pre.calendar_sync_state, USER, c)

C26_NoCrossCalendarConflict ==
    mode = "all" =>
        /\ \A c \in CalIds :
              /\ EventsOfCalendar(calendar_events, USER, c) = OwnEvents(c)
              /\ RecordsOf(calendars, c) = OwnRecords(c)
              /\ getLastSyncTime(calendar_sync_state, USER, c) = OwnSyncTime(c)
        /\ BatchReported =>
              /\ result.successCount = Cardinality({ c \in IdsOf(loaded) : pc[c] = "done" })
              /\ ListedIds = { c \in IdsOf(loaded) : pc[c] = "failed" /\ taskError[c].code # "none" }
              /\ \A i, j \in 1..Len(result.errorCalendars) :
                    i < j => result.errorCalendars[i].calendarId < result.errorCalendars[j].calendarId
              /\ result.totalCount = Len(loaded)

(* the second calendar of the list has finished while the first, fetched,  *)
(* is still to save its events                                             *)
C26_Witness ==
    \E c, d \in CalIds :
        /\ mode = "all" /\ c < d
        /\ pc[d] = "done" /\ SaveOk(d) /\ events[d] # {}
        /\ pc[c] = "saveMany" /\ events[c] # {}
        /\ Answer(d, "updateLastSyncTime", "ok")

Handlers == { "DELETE", "PATCH" }

IdleRequest ==
    [pc |-> "idle", arg |-> 0, enabled |-> FALSE, status |-> 0, code |-> "none",
     calendars |-> <<>>, updatedCalendars |-> <<>>]

(* DELETE drops the entry, PATCH replaces it by { ...entry, enabled } *)
updatedCalendars(handler, list, index, enabled) ==
    IF handler = "DELETE" THEN RemoveAt(list, index)
    ELSE [list EXCEPT ![index] = [list[index] EXCEPT !.enabled = enabled]]

Request_getSetting(handler, id, enabled, dbOk) ==
    /\ call.op = "requests"
    /\ call.reqs[handler].pc = "idle"
    /\ LET request == [IdleRequest EXCEPT !.arg = id, !.enabled = enabled]
           stored == getSetting(USER, CALENDARS_KEY)
           parsed == JsonParse(stored)
           list == IF stored = Null THEN <<>> ELSE parsed.value
       IN  call' = [call EXCEPT !.reqs[handler] =
                      IF ~ dbOk THEN Responded(request, 500, "DB_ERROR")
                      ELSE IF stored # Null /\ parsed.threw
                      THEN Responded(request, 500, "SyntaxError")
                      ELSE IF findIndex(list, id) = -1
                      THEN Responded(request, 404, "CALENDAR_NOT_FOUND")
                      ELSE [request EXCEPT
                              !.pc = "setSetting",
                              !.calendars = list,
                              !.updatedCalendars =
                                  updatedCalendars(handler, list, findIndex(list, id), enabled)]]
    /\ UNCHANGED <<tables, run, provider>>

Request_setSetting(handler, dbOk) ==
    /\ call.op = "requests"
    /\ call.reqs[handler].pc = "setSetting"
    /\ IF dbOk
       THEN /\ user_settings' = setSetting(user_settings, USER, CALENDARS_KEY,
                                           JsonStringify(call.reqs[handler].updatedCalendars))
            /\ call' = [call EXCEPT
                          !.lastWriter = handler,
                          !.reqs[handler] =
                              IF handler = "DELETE" THEN [@ EXCEPT !.pc = "deleteByCalendar"]
                              ELSE Responded(@, 200, "none")]
       ELSE /\ call' = [call EXCEPT !.reqs[handler] = Responded(@, 500, "CONFIG_SAVE_ERROR")]
            /\ UNCHANGED user_settings
    /\ UNCHANGED <<credentials, calendars, calendar_events, calendar_sync_state, run, provider>>

Request_deleteByCalendar(dbOk) ==
    /\ call.op = "requests"
    /\ call.reqs["DELETE"].pc = "deleteByCalendar"
    /\ calendar_events' = IF dbOk
                          THEN deleteByCalendar(calendar_events, USER, call.reqs["DELETE"].arg)
                          ELSE calendar_events
    /\ call' = [call EXCEPT !.reqs["DELETE"] = Responded(@, 204, IF dbOk THEN "none" ELSE "warned")]
    /\ UNCHANGED <<user_settings, credentials, calendars, calendar_sync_state, run, provider>>

InitRequests ==
    /\ NoRun
    /\ \E v \in DeleteSettings :
          user_settings = IF v = Null THEN {}
                          ELSE { [user_id |-> USER, key |-> CALENDARS_KEY, value |-> v] }
    /\ credentials = {}
    /\ calendars = {}
    /\ calendar_events \in SUBSET { [id |-> 1, calendar_id |-> c, user_id |-> USER,
                                     start_time |-> 1, end_time |-> 1] : c \in CacheCalendarIds }
    /\ calendar_sync_state = {}
    /\ call = [op |-> "requests", lastWriter |-> "none",
               reqs |-> [h \in Handlers |-> IdleRequest]]
    /\ provider = NoProvider

NextRequests ==
    \/ \E handler \in Handlers, id \in CalIds, enabled \in BOOLEAN, dbOk \in BOOLEAN :
          Request_getSetting(handler, id, enabled, dbOk)
    \/ \E handler \in Handlers, dbOk \in BOOLEAN : Request_setSetting(handler, dbOk)
    \/ \E dbOk \in BOOLEAN : Request_deleteByCalendar(dbOk)

SpecRequests == InitRequests /\ [][NextRequests]_vars

(***************************************************************************)
(* C25: the calendar list is mutated by an unlocked read-modify-write of   *)
(* one settings row: the stored list is always the whole list the last     *)
(* writer computed from its own read, so when two mutations overlap the    *)
(* last write silently wins and a final list in which one mutation's       *)
(* effect is lost is reachable although both requests reported success.    *)
(***************************************************************************)
C25_LastWriteWins ==
    (call.op = "requests" /\ call.lastWriter # "none") =>
        LET last == call.reqs[call.lastWriter] IN
        /\ StoredList = last.updatedCalendars
        /\ last.updatedCalendars
           = updatedCalendars(call.lastWriter, last.calendars,
                              findIndex(last.calendars, last.arg), last.enabled)

(* DELETE of one calendar and PATCH of another both reported success, and  *)
(* the deleted calendar is in the stored list                              *)
C25_Witness ==
    /\ call.op = "requests"
    /\ call.reqs["DELETE"].status = 204
    /\ call.reqs["PATCH"].status = 200
    /\ call.reqs["DELETE"].arg # call.reqs["PATCH"].arg
    /\ call.reqs["DELETE"].arg \in IdsOf(StoredList)
    /\ \E i \in 1..Len(StoredList) :
          StoredList[i].id = call.reqs["PATCH"].arg /\ ~ StoredList[i].enabled

(***************************************************************************)
(* DELETE /api/calendars/[id] while a syncAllCalendars run of the same     *)
(* user is in flight: the handler's steps and the run's steps interleave   *)
(* at every await.  The registered calendars are working iCal feeds.       *)
(***************************************************************************)
InitDeleteDuringSync == InitWith(DeleteSettings, 1)

NextDeleteDuringSync ==
    \/ CallSyncAllCalendars
    \/ SyncAllLoad
    \/ \E c \in CalIds : fetchEventsFromProvider(c)
    \/ \E c \in CalIds : GetEventsAnswers(c)
    \/ \E c \in CalIds : GetEventsNeverAnswers(c)
    \/ \E c \in CalIds : SyncSingleEnsure(c)
    \/ \E c \in CalIds : SyncSingleSave(c)
    \/ \E c \in CalIds : SyncSingleUpdate(c)
    \/ PromiseAllFulfilled
    \/ \E id \in CalIds, dbOk \in BOOLEAN : DELETE_getSetting(USER, id, dbOk)
    \/ \E dbOk \in BOOLEAN : DELETE_setSetting(dbOk)
    \/ \E dbOk \in BOOLEAN : DELETE_deleteByCalendar(dbOk)

SpecDeleteDuringSync == InitDeleteDuringSync /\ [][NextDeleteDuringSync]_vars

(***************************************************************************)
(* C30: calendar deletion is not undone by a concurrent sync: once DELETE  *)
(* of calendar c has answered 204 (its deleteByCalendar having succeeded)  *)
(* and every sync run has finished, the cache holds no event of calendar   *)
(* c, also when a run that loaded the list before the deletion persists    *)
(* its events after the deletion.                                          *)
(***************************************************************************)
SyncFinished == phase \in {"idle", "returned"} /\ \A c \in CalIds : Settled(c)

C30_DeletionNotUndoneBySync ==
    (call.op = "DELETE" /\ call.pc = "responded" /\ call.status = 204 /\ call.code = "none"
     /\ SyncFinished) =>
        EventsOfCalendar(calendar_events, USER, call.arg) = {}

(***************************************************************************)
(* Two sync runs of one user in flight together (two requests), on         *)
(* registered iCal calendars.  `call` holds, for each run, its use case,   *)
(* calendar, position, the syncTime it captured and the events it          *)
(* fetched, and for each calendar the latest sync time any run has         *)
(* written; `now` is the clock.  syncAllCalendars captures syncTime before *)
(* it starts its tasks, syncCalendar reads it after the save.              *)
(***************************************************************************)
RunIds == { 1, 2 }

IdleRun == [pc |-> "idle", mode |-> "none", calendarId |-> 0, syncTime |-> 0, events |-> {}]

OverlapConfig(c) ==
    CalendarConfig(c, [type |-> "ical", googleAccountEmail |-> "", googleCalendarId |-> "",
                       icalUrl |-> "https://feed"], TRUE)

FetchedEvents(c) ==
    { {}, { [id |-> 1, calendarId |-> c, startTime |-> 1, endTime |-> 1] } }

Later(a, b) == IF a >= b THEN a ELSE b

ClockAdvances ==
    /\ call.op = "runs"
    /\ now < MaxClock
    /\ now' = now + 1
    /\ UNCHANGED <<tables, runsLeft, mode, target, phase, configRead, loaded, syncTime, pc, events,
                   taskError, result, opLog, pre, lastLog, call, provider>>

(* the use case starts: the list is loaded and the fetch is on its way *)
Run_start(r, m, c) ==
    /\ call.op = "runs"
    /\ call.runs[r].pc = "idle"
    /\ call' = [call EXCEPT !.runs[r] =
                  [pc |-> "getEvents", mode |-> m, calendarId |-> c,
                   syncTime |-> IF m = "all" THEN now ELSE 0, events |-> {}]]
    /\ UNCHANGED <<tables, run, provider>>

Run_fetched(r, answered, evs) ==
    /\ call.op = "runs"
    /\ call.runs[r].pc = "getEvents"
    /\ evs \in FetchedEvents(call.runs[r].calendarId)
    /\ call' = [call EXCEPT !.runs[r] =
                  IF ~ answered THEN [@ EXCEPT !.pc = "failed"]
                  ELSE [@ EXCEPT !.events = evs,
                                 !.pc = AwaitAfterFetch(call.runs[r].mode)]]
    /\ UNCHANGED <<tables, run, provider>>

Run_ensured(r, written) ==
    /\ call.op = "runs"
    /\ call.runs[r].pc = "ensureCalendarRecord"
    /\ LET cfg == OverlapConfig(call.runs[r].calendarId) IN
         calendars' = IF written
                      THEN ensureCalendarRecord(calendars, USER, cfg.id, cfg.name, cfg.type,
                                                JsonStringify(cfg), cfg.enabled)
                      ELSE calendars
    /\ call' = [call EXCEPT !.runs[r].pc = "saveMany"]
    /\ UNCHANGED <<user_settings, credentials, calendar_events, calendar_sync_state, run, provider>>

Run_saved(r, written) ==
    /\ call.op = "runs"
    /\ call.runs[r].pc = "saveMany"
    /\ written \in WriteOutcomes(call.runs[r].events)
    /\ calendar_events' = IF written THEN saveMany(calendar_events, USER, call.runs[r].events)
                          ELSE calendar_events
    /\ call' = [call EXCEPT !.runs[r].pc = IF written THEN "updateLastSyncTime" ELSE "failed"]
    /\ UNCHANGED <<user_settings, credentials, calendars, calendar_sync_state, run, provider>>

Run_updated(r, written) ==
    /\ call.op = "runs"
    /\ call.runs[r].pc = "updateLastSyncTime"
    /\ LET c == call.runs[r].calendarId
           time == IF call.runs[r].mode = "all" THEN call.runs[r].syncTime ELSE now
       IN  /\ calendar_sync_state' = IF written
                                     THEN updateLastSyncTime(calendar_sync_state, USER, c, time)
                                     ELSE calendar_sync_state
           /\ call' = [call EXCEPT
                         !.runs[r].pc = "done",
                         !.runs[r].syncTime = time,
                         !.written[c] = IF written THEN Later(@, time) ELSE @]
    /\ UNCHANGED <<user_settings, credentials, calendars, calendar_events, run, provider>>

InitOverlap ==
    /\ now = 1
    /\ runsLeft = 0
    /\ mode = "none"
    /\ target = 0
    /\ phase = "idle"
    /\ configRead = "none"
    /\ loaded = <<>>
    /\ syncTime = 0
    /\ pc = [c \in CalIds |-> "none"]
    /\ events = [c \in CalIds |-> {}]
    /\ taskError = [c \in CalIds |-> NoError]
    /\ result = [tag |-> "none"]
    /\ opLog = [c \in CalIds |-> <<>>]
    /\ pre = [calendars |-> {}, calendar_events |-> {}, calendar_sync_state |-> {}]
    /\ lastLog = [m \in {"all", "single"} |-> [c \in CalIds |-> <<>>]]
    /\ user_settings = {}
    /\ credentials = {}
    /\ calendars = {}
    /\ calendar_events = {}
    /\ calendar_sync_state = {}
    /\ call = [op |-> "runs", runs |-> [r \in RunIds |-> IdleRun],
               written |-> [c \in CalIds |-> 0]]
    /\ provider = NoProvider

NextOverlap ==
    \/ ClockAdvances
    \/ \E r \in RunIds, m \in {"all", "single"}, c \in CalIds : Run_start(r, m, c)
    \/ \E r \in RunIds, answered \in BOOLEAN, evs \in UNION { FetchedEvents(c) : c \in CalIds } :
          Run_fetched(r, answered, evs)
    \/ \E r \in RunIds, written \in BOOLEAN : Run_ensured(r, written)
    \/ \E r \in RunIds, written \in BOOLEAN : Run_saved(r, written)
    \/ \E r \in RunIds, written \in BOOLEAN : Run_updated(r, written)

SpecOverlap == InitOverlap /\ [][NextOverlap]_vars

(***************************************************************************)
(* C29: the stored last-sync time of a (calendar, user) never decreases,   *)
(* also when two sync runs of the user overlap: it is never below a sync   *)
(* time that a run has written for the calendar before.                    *)
(***************************************************************************)
C29_LastSyncTimeNeverDecreases ==
    call.op = "runs" =>
        \A c \in CalIds : getLastSyncTime(calendar_sync_state, USER, c) >= call.written[c]

====
